---------------------------- MODULE Spec2Model ----------------------------
(***************************************************************************)
(* The concierge chat core of the resort system: the LLM gateway, the      *)
(* intent router (AgentOrchestrator), the restaurant, room-service and     *)
(* receptionist agents, and the chat endpoint that records every turn.     *)
(*                                                                         *)
(* Text is modelled character by character: a Python str is a sequence of  *)
(* one-character strings, so that lower(), strip(), substring tests and    *)
(* the regular expressions of the source are computed, not assumed.        *)
(* Prices are kept in tenths of a currency unit (every menu price is a     *)
(* multiple of 0.5, so the float sums of the source are exact).            *)
(***************************************************************************)
EXTENDS Integers, Sequences, FiniteSets, TLC

VARIABLES
  messages,   \* table conversation_messages, oldest row first
  orders,     \* table restaurant_orders, oldest row first
  requests,   \* table room_service_requests, oldest row first
  available,  \* LLMClient.available: a client is bound
  last_error, \* LLMClient.last_error of the client under test ("" is None)
  call,       \* the arguments and gateway responses of the last call
  outcome,    \* what the last call returned or raised
  trace,      \* observations of the last call: agents invoked, remote calls, ...
  turn,       \* number of chat requests served
  users,      \* table users: the room_number of each registered user id
  rooms,      \* table rooms: the available flag of each room number
  sessions    \* the requests in progress: what each one's session has loaded

vars == <<messages, orders, requests, available, last_error, call, outcome, trace, turn,
          users, rooms, sessions>>

-----------------------------------------------------------------------------
(* Python values *)

Absent == << >>                 \* None (an Optional without a value)
Some(x) == <<x>>
IsAbsent(o) == o = << >>
IsPresent(o) == o # << >>
The(o) == o[1]

Min(S) == CHOOSE x \in S : \A y \in S : x <= y
Max(S) == CHOOSE x \in S : \A y \in S : x >= y

\* JSON values as json.loads builds them
JNull == [t |-> "null", v |-> 0]
JBool(b) == [t |-> "bool", v |-> b]
JInt(n) == [t |-> "int", v |-> n]
JFloat(tenths) == [t |-> "float", v |-> tenths]   \* the float tenths/10
JInf == [t |-> "inf", v |-> 0]                    \* json.loads("Infinity")
JStr(s) == [t |-> "str", v |-> s]
JList(items) == [t |-> "list", v |-> items]
JDict(pairs) == [t |-> "dict", v |-> pairs]       \* <<key, value>> pairs in order

\* bool(x)
Truthy(j) ==
  CASE j.t = "null" -> FALSE
    [] j.t = "bool" -> j.v
    [] j.t = "int" -> j.v # 0
    [] j.t = "float" -> j.v # 0
    [] j.t = "inf" -> TRUE
    [] OTHER -> Len(j.v) > 0

\* dict.get(key): the value of the last pair with that key, else None
DictHas(d, key) == \E i \in 1..Len(d.v) : d.v[i][1] = key
DictGet(d, key) ==
  IF DictHas(d, key)
  THEN d.v[Max({i \in 1..Len(d.v) : d.v[i][1] = key})][2]
  ELSE JNull

-----------------------------------------------------------------------------
(* str operations *)

LowerLetters == <<"a","b","c","d","e","f","g","h","i","j","k","l","m",
                  "n","o","p","q","r","s","t","u","v","w","x","y","z">>
UpperLetters == <<"A","B","C","D","E","F","G","H","I","J","K","L","M",
                  "N","O","P","Q","R","S","T","U","V","W","X","Y","Z">>
DigitChars == <<"0","1","2","3","4","5","6","7","8","9">>

IsLowerLetter(c) == \E i \in 1..26 : LowerLetters[i] = c
IsUpperLetter(c) == \E i \in 1..26 : UpperLetters[i] = c
IsDigit(c) == \E i \in 1..10 : DigitChars[i] = c
DigitValue(c) == (CHOOSE i \in 1..10 : DigitChars[i] = c) - 1
IsSpace(c) == c \in {" ", "\t", "\n", "\r"}
IsWordChar(c) == IsLowerLetter(c) \/ IsUpperLetter(c) \/ IsDigit(c) \/ c = "_"

LowerChar(c) ==
  IF IsUpperLetter(c)
  THEN LowerLetters[CHOOSE i \in 1..26 : UpperLetters[i] = c]
  ELSE c
UpperChar(c) ==
  IF IsLowerLetter(c)
  THEN UpperLetters[CHOOSE i \in 1..26 : LowerLetters[i] = c]
  ELSE c

\* str.lower()
lower(s) == [i \in 1..Len(s) |-> LowerChar(s[i])]

\* str.strip()
strip(s) ==
  LET keep == {i \in 1..Len(s) : ~IsSpace(s[i])}
  IN IF keep = {} THEN << >> ELSE SubSeq(s, Min(keep), Max(keep))

\* str.title(): a cased letter after an uncased character is upper-cased, any other lower-cased
title(s) ==
  [i \in 1..Len(s) |->
     IF i = 1 \/ ~(IsLowerLetter(s[i-1]) \/ IsUpperLetter(s[i-1]))
     THEN UpperChar(s[i]) ELSE LowerChar(s[i])]

\* pat occurs in text at index i
StartsAt(text, pat, i) ==
  /\ i >= 1
  /\ i + Len(pat) - 1 <= Len(text)
  /\ \A k \in 1..Len(pat) : text[i + k - 1] = pat[k]

\* pat in text
Contains(text, pat) == \E i \in 1..(Len(text) - Len(pat) + 1) : StartsAt(text, pat, i)

\* any(k in text for k in keywords)
ContainsAny(text, keywords) == \E k \in 1..Len(keywords) : Contains(text, keywords[k])

\* str.isdigit()
isdigit(s) == Len(s) > 0 /\ \A i \in 1..Len(s) : IsDigit(s[i])

\* int(s) of a string of digits
RECURSIVE int(_)
int(s) == IF Len(s) = 0 THEN 0 ELSE 10 * int(SubSeq(s, 1, Len(s) - 1)) + DigitValue(s[Len(s)])

\* the regular expression \b between offsets p and p+1 (p = 0 .. Len)
Boundary(text, p) ==
  LET left == p >= 1 /\ IsWordChar(text[p])
      right == p < Len(text) /\ IsWordChar(text[p + 1])
  IN left # right

\* chars a..b of text are all whitespace (vacuous when a > b)
AllSpace(text, a, b) == \A k \in a..b : IsSpace(text[k])

\* [i, j] is a maximal run of digits of text
DigitRun(text, i, j) ==
  /\ 1 <= i /\ i <= j /\ j <= Len(text)
  /\ \A k \in i..j : IsDigit(text[k])
  /\ (i = 1 \/ ~IsDigit(text[i - 1]))
  /\ (j = Len(text) \/ ~IsDigit(text[j + 1]))
DigitRuns(text) == {r \in (1..Len(text)) \X (1..Len(text)) : DigitRun(text, r[1], r[2])}

\* re.split(r"[\s-]+", s), its empty strings dropped
RECURSIVE SplitWords(_)
SplitWords(s) ==
  LET sep(c) == IsSpace(c) \/ c = "-"
      seps == {i \in 1..Len(s) : sep(s[i])}
  IN IF Len(s) = 0 THEN << >>
     ELSE IF seps = {} THEN <<s>>
     ELSE LET i == Min(seps)
              rest == SplitWords(SubSeq(s, i + 1, Len(s)))
          IN IF i = 1 THEN rest ELSE <<SubSeq(s, 1, i - 1)>> \o rest

-----------------------------------------------------------------------------
(* Exceptions: a computation returns Return(v) or Raise(error) *)

Return(v) == [raised |-> FALSE, error |-> "", value |-> v]
Raise(e) == [raised |-> TRUE, error |-> e, value |-> 0]

-----------------------------------------------------------------------------
(* app/data/menu.py *)

\* prices in tenths
FALLBACK_MENU == <<
  [name |-> <<"M","a","r","g","h","e","r","i","t","a"," ","P","i","z","z","a">>, price |-> 120],
  [name |-> <<"G","r","i","l","l","e","d"," ","S","a","l","m","o","n">>, price |-> 185],
  [name |-> <<"C","a","e","s","a","r"," ","S","a","l","a","d">>, price |-> 95],
  [name |-> <<"C","l","u","b"," ","S","a","n","d","w","i","c","h">>, price |-> 100],
  [name |-> <<"F","r","e","n","c","h"," ","F","r","i","e","s">>, price |-> 45],
  [name |-> <<"T","o","m","a","t","o"," ","S","o","u","p">>, price |-> 60],
  [name |-> <<"C","h","o","c","o","l","a","t","e"," ","C","a","k","e">>, price |-> 70],
  [name |-> <<"F","r","e","s","h"," ","J","u","i","c","e">>, price |-> 50],
  [name |-> <<"C","o","f","f","e","e">>, price |-> 35] >>

\* Restaurant_Menu.xlsx is not part of the sources: _load_menu_from_excel()
\* finds no file and returns None
MENU == FALLBACK_MENU

-----------------------------------------------------------------------------
(* app/agents/restaurant_agent.py: heuristics *)

\* RestaurantAgent.__init__: MENU, then FALLBACK_MENU, first entry of a name wins
RECURSIVE MergeMenu(_, _)
MergeMenu(items, acc) ==
  IF Len(items) = 0 THEN acc
  ELSE LET it == items[1]
           seen == \E i \in 1..Len(acc) : lower(acc[i].name) = lower(it.name)
       IN MergeMenu(Tail(items),
                    IF Len(it.name) > 0 /\ ~seen THEN Append(acc, it) ELSE acc)
menu_lookup == MergeMenu(MENU \o FALLBACK_MENU, << >>)

\* menu_lookup.get(key)
MenuHas(key) == \E i \in 1..Len(menu_lookup) : lower(menu_lookup[i].name) = key
MenuGet(key) == menu_lookup[CHOOSE i \in 1..Len(menu_lookup) : lower(menu_lookup[i].name) = key]

\* the words of a name longer than MinTokenLen characters
MinTokenLen == 3
NameTokens(name_lower) ==
  LET w == SplitWords(name_lower)
  IN {w[i] : i \in {k \in 1..Len(w) : Len(w[k]) > MinTokenLen}}

\* re.search(rf"\b{token}s?\b", text)
SearchWord(text, token) ==
  \E i \in 1..Len(text) :
    /\ StartsAt(text, token, i)
    /\ Boundary(text, i - 1)
    /\ LET e == i + Len(token) - 1
       IN \/ Boundary(text, e)
          \/ (e < Len(text) /\ text[e + 1] = "s" /\ Boundary(text, e + 1))

_matches_item(text, item_name) ==
  LET name_lower == lower(item_name)
  IN \/ Contains(text, name_lower)
     \/ \E token \in NameTokens(name_lower) : SearchWord(text, token)

number_words == << <<<<"o","n","e">>, 1>>, <<<<"t","w","o">>, 2>>, <<<<"t","h","r","e","e">>, 3>>, <<<<"f","o","u","r">>, 4>>, <<<<"f","i","v","e">>, 5>> >>
IsNumberWord(s) == \E i \in 1..Len(number_words) : number_words[i][1] = s
NumberWordValue(s) == number_words[CHOOSE i \in 1..Len(number_words) : number_words[i][1] = s][2]

MaxQuantity == 20

\* min(int(raw), 20) for a number raw > 0
ClampNumber(n) == IF n < MaxQuantity THEN n ELSE MaxQuantity
\* val if 0 < val <= 20 else 1
RangeOrOne(val) == IF 0 < val /\ val <= MaxQuantity THEN val ELSE 1

\* the first match of re.search(r"\d+", s)
FirstDigits(s) ==
  LET runs == DigitRuns(s)
      i == Min({r[1] : r \in runs})
      r == CHOOSE q \in runs : q[1] = i
  IN SubSeq(s, r[1], r[2])

_coerce_quantity(raw) ==
  CASE raw.t = "int" /\ raw.v > 0 -> Return(ClampNumber(raw.v))
    [] raw.t = "bool" /\ raw.v -> Return(ClampNumber(1))
    [] raw.t = "float" /\ raw.v > 0 -> Return(ClampNumber(raw.v \div 10))
    [] raw.t = "inf" -> Raise("OverflowError")
    [] raw.t = "str" ->
         LET cleaned == lower(strip(raw.v))
         IN IF isdigit(cleaned) THEN Return(RangeOrOne(int(cleaned)))
            ELSE IF IsNumberWord(cleaned) THEN Return(NumberWordValue(cleaned))
            ELSE IF DigitRuns(cleaned) # {} THEN Return(RangeOrOne(int(FirstDigits(cleaned))))
            ELSE Return(1)
    [] OTHER -> Return(1)

\* \s*(?:x\s*)? between offset p and a position where want(q) holds of the next index q
Gap(text, p, want(_)) ==
  \E a \in p..Len(text) :
    /\ AllSpace(text, p + 1, a)
    /\ \/ want(a + 1)
       \/ /\ a < Len(text) /\ text[a + 1] = "x"
          /\ \E b \in (a + 1)..Len(text) : AllSpace(text, a + 2, b) /\ want(b + 1)

\* the index the gap leads to: whitespace and x are taken greedily
GapEnd(text, p, want(_)) ==
  LET ends == {q \in (p + 1)..(Len(text) + 1) :
                 /\ want(q)
                 /\ \E a \in p..(q - 1) :
                      /\ AllSpace(text, p + 1, a)
                      /\ \/ a + 1 = q
                         \/ (a + 1 < q /\ text[a + 1] = "x" /\ AllSpace(text, a + 2, q - 1))}
  IN Max(ends)

\* pattern 1: (?P<num>\d+)\s*(?:x\s*)?NAME ; the digits of the leftmost match
DigitsBefore(text, name) ==
  LET hits == {r \in DigitRuns(text) : Gap(text, r[2], LAMBDA q : StartsAt(text, name, q))}
  IN IF hits = {} THEN Absent
     ELSE LET r == CHOOSE q \in hits : q[1] = Min({h[1] : h \in hits})
          IN Some(SubSeq(text, r[1], r[2]))

\* pattern 2: NAME\s*(?:x\s*)?(?P<num>\d+)
DigitsAfter(text, name) ==
  LET isd(q) == q <= Len(text) /\ IsDigit(text[q])
      hits == {n \in 1..Len(text) :
                 StartsAt(text, name, n) /\ Gap(text, n + Len(name) - 1, isd)}
  IN IF hits = {} THEN Absent
     ELSE LET n == Min(hits)
              d == GapEnd(text, n + Len(name) - 1, isd)
              r == CHOOSE q \in DigitRuns(text) : q[1] <= d /\ d <= q[2]
          IN Some(SubSeq(text, d, r[2]))

\* pattern 3: (?P<word>one|two|three|four|five)\s+NAME
WordBefore(text, name) ==
  LET hit(i, w) ==
        /\ StartsAt(text, w, i)
        /\ \E a \in (i + Len(w))..Len(text) :
             AllSpace(text, i + Len(w), a) /\ StartsAt(text, name, a + 1)
      hits == {i \in 1..Len(text) : \E k \in 1..Len(number_words) : hit(i, number_words[k][1])}
  IN IF hits = {} THEN Absent
     ELSE LET i == Min(hits)
              k == Min({j \in 1..Len(number_words) : hit(i, number_words[j][1])})
          IN Some(number_words[k][1])

\* pattern 4: NAME\s+(?P<word>one|two|three|four|five)
WordAfter(text, name) ==
  LET hit(n, w) ==
        /\ StartsAt(text, name, n)
        /\ \E a \in (n + Len(name))..Len(text) :
             AllSpace(text, n + Len(name), a) /\ StartsAt(text, w, a + 1)
      hits == {n \in 1..Len(text) : \E k \in 1..Len(number_words) : hit(n, number_words[k][1])}
  IN IF hits = {} THEN Absent
     ELSE LET n == Min(hits)
              k == Min({j \in 1..Len(number_words) : hit(n, number_words[j][1])})
          IN Some(number_words[k][1])

\* the number words of the message, in the order of number_words
WordsInText(text) == {k \in 1..Len(number_words) : Contains(text, number_words[k][1])}

_find_quantity(text, item_name) ==
  LET name_lower == lower(item_name)
      p1 == DigitsBefore(text, name_lower)
      p2 == DigitsAfter(text, name_lower)
      p3 == WordBefore(text, name_lower)
      p4 == WordAfter(text, name_lower)
  IN CASE IsPresent(p1) -> _coerce_quantity(JStr(The(p1))).value
       [] IsPresent(p2) -> _coerce_quantity(JStr(The(p2))).value
       [] IsPresent(p3) -> _coerce_quantity(JStr(The(p3))).value
       [] IsPresent(p4) -> _coerce_quantity(JStr(The(p4))).value
       [] WordsInText(text) # {} -> number_words[Min(WordsInText(text))][2]
       [] OTHER -> 1

explicit_number_words == <<<<"o","n","e">>, <<"t","w","o">>, <<"t","h","r","e","e">>, <<"f","o","u","r">>, <<"f","i","v","e">>,
                           <<"s","i","x">>, <<"s","e","v","e","n">>, <<"e","i","g","h","t">>, <<"n","i","n","e">>, <<"t","e","n">>>>

_has_explicit_quantity(text) ==
  \/ ContainsAny(text, explicit_number_words)
  \/ \E r \in DigitRuns(text) :
       LET val == int(SubSeq(text, r[1], r[2])) IN 1 <= val /\ val <= MaxQuantity

\* one line of an order as the agents pass it around: {"name": ..., "quantity": ...}
OrderLine(name, quantity) ==
  JDict(<< <<<<"n","a","m","e">>, JStr(name)>>, <<<<"q","u","a","n","t","i","t","y">>, quantity>> >>)

RECURSIVE ParseItems(_, _)
ParseItems(text, k) ==
  IF k > Len(menu_lookup) THEN << >>
  ELSE LET item == menu_lookup[k]
       IN (IF _matches_item(text, item.name)
           THEN <<OrderLine(item.name, JInt(_find_quantity(text, item.name)))>>
           ELSE << >>) \o ParseItems(text, k + 1)

\* _simple_parse were it to leave needs_qty_confirm False whatever it matched
Restaurant_simple_parse_ungated(message) ==
  LET parsed(items) ==
        [payload |-> IF Len(items) > 0 THEN Some(JDict(<< <<<<"i","t","e","m","s">>, JList(items)>> >>))
                     ELSE Absent,
         needs_qty_confirm |-> FALSE]
  IN parsed(ParseItems(lower(message), 1))

\* returns <<payload or None, needs_qty_confirm>>; the payload is its item list
Restaurant_simple_parse(message) ==
  LET text == lower(message)
      items == ParseItems(text, 1)
      needs_qty_confirm == Len(items) > 1 /\ ~_has_explicit_quantity(text)
  IN [payload |-> IF Len(items) > 0 THEN Some(JDict(<< <<<<"i","t","e","m","s">>, JList(items)>> >>)) ELSE Absent,
      needs_qty_confirm |-> needs_qty_confirm]

-----------------------------------------------------------------------------
(* app/agents/room_service_agent.py: heuristics *)

room_service_parse_keywords == <<<<"t","o","i","l","e","t","r","i","e","s">>, <<"t","o","o","t","h","p","a","s","t","e">>, <<"t","o","o","t","h","b","r","u","s","h">>, <<"b","r","u","s","h">>, <<"p","i","l","l","o","w">>, <<"b","l","a","n","k","e","t">>>>

\* returns the request_type of the parsed payload, or None
RoomService_simple_parse(message) ==
  LET text == lower(message)
      hits == {k \in 1..Len(room_service_parse_keywords) : Contains(text, room_service_parse_keywords[k])}
  IN CASE Contains(text, <<"l","a","u","n","d","r","y">>) -> Some(<<"l","a","u","n","d","r","y">>)
       [] Contains(text, <<"c","l","e","a","n">>) \/ Contains(text, <<"h","o","u","s","e","k","e","e","p","i","n","g">>) -> Some(<<"c","l","e","a","n","i","n","g">>)
       [] Contains(text, <<"t","o","w","e","l">>) \/ Contains(text, <<"t","o","w","e","l","s">>) -> Some(<<"t","o","w","e","l","s">>)
       [] hits # {} -> Some(room_service_parse_keywords[Min(hits)])
       [] OTHER -> Absent

request_type_mapping == <<
  <<<<"b","l","a","n","k","e","t">>, <<"b","l","a","n","k","e","t">>>>, <<<<"b","l","a","n","k","e","t","s">>, <<"b","l","a","n","k","e","t">>>>,
  <<<<"p","i","l","l","o","w">>, <<"p","i","l","l","o","w">>>>, <<<<"p","i","l","l","o","w","s">>, <<"p","i","l","l","o","w">>>>,
  <<<<"t","o","i","l","e","t","r","y">>, <<"t","o","i","l","e","t","r","i","e","s">>>>, <<<<"t","o","i","l","e","t","r","i","e","s">>, <<"t","o","i","l","e","t","r","i","e","s">>>>,
  <<<<"t","o","o","t","h","p","a","s","t","e">>, <<"t","o","o","t","h","p","a","s","t","e">>>>, <<<<"t","o","o","t","h","b","r","u","s","h">>, <<"t","o","o","t","h","b","r","u","s","h">>>>,
  <<<<"b","r","u","s","h">>, <<"t","o","o","t","h","b","r","u","s","h">>>>, <<<<"l","a","u","n","d","r","y">>, <<"l","a","u","n","d","r","y">>>>,
  <<<<"c","l","e","a","n">>, <<"c","l","e","a","n","i","n","g">>>>, <<<<"c","l","e","a","n","i","n","g">>, <<"c","l","e","a","n","i","n","g">>>>,
  <<<<"h","o","u","s","e","k","e","e","p","i","n","g">>, <<"c","l","e","a","n","i","n","g">>>>,
  <<<<"t","o","w","e","l">>, <<"t","o","w","e","l","s">>>>, <<<<"t","o","w","e","l","s">>, <<"t","o","w","e","l","s">>>> >>

\* mapping.get(key)
MappingGet(key) ==
  LET hits == {i \in 1..Len(request_type_mapping) : request_type_mapping[i][1] = key}
  IN IF hits = {} THEN Absent ELSE Some(request_type_mapping[Min(hits)][2])

\* next((x for x in request_type if x), "")
FirstTruthy(list) ==
  LET hits == {i \in 1..Len(list.v) : Truthy(list.v[i])}
  IN IF hits = {} THEN JStr(<< >>) ELSE list.v[Min(hits)]

\* next((v for v in request_type.values() if isinstance(v, str)), "")
FirstStringValue(dict) ==
  LET hits == {i \in 1..Len(dict.v) : dict.v[i][2].t = "str"}
  IN IF hits = {} THEN JStr(<< >>) ELSE dict.v[Min(hits)][2]

\* the list branch, then the dict branch
UnwrapList(rt) == IF rt.t = "list" THEN FirstTruthy(rt) ELSE rt
UnwrapDict(rt) ==
  IF rt.t = "dict"
  THEN LET val == DictGet(rt, <<"r","e","q","u","e","s","t","_","t","y","p","e">>)
       IN IF val.t = "str" THEN val ELSE FirstStringValue(rt)
  ELSE rt

\* request_type.strip(), then mapping.get(request_type.lower()); str methods on
\* a value that is no str raise AttributeError
StripAndMap(rt) ==
  IF rt.t = "str" THEN Return(MappingGet(lower(strip(rt.v)))) ELSE Raise("AttributeError")

\* _normalize_request_type without the isinstance(request_type, str) test of line 81
_normalize_request_type_unguarded(request_type) ==
  IF request_type.t = "null" THEN Return(Absent)
  ELSE StripAndMap(UnwrapDict(UnwrapList(request_type)))

_normalize_request_type(request_type) ==
  IF request_type.t = "null" THEN Return(Absent)
  ELSE LET rt == UnwrapDict(UnwrapList(request_type))
       IN IF rt.t # "str" THEN Return(Absent) ELSE StripAndMap(rt)

-----------------------------------------------------------------------------
(* app/agents/orchestrator.py: heuristics *)

route_restaurant_keywords == <<
  <<"m","e","n","u">>, <<"o","r","d","e","r">>, <<"f","o","o","d">>, <<"b","r","e","a","k","f","a","s","t">>, <<"l","u","n","c","h">>, <<"d","i","n","n","e","r">>, <<"b","i","l","l">>,
  <<"c","o","f","f","e","e">>, <<"t","e","a">>, <<"j","u","i","c","e">>, <<"d","r","i","n","k">>, <<"b","e","v","e","r","a","g","e">>, <<"s","n","a","c","k">>, <<"p","i","z","z","a">>,
  <<"f","r","i","e","s">>, <<"b","u","r","g","e","r">>, <<"s","a","n","d","w","i","c","h">>, <<"s","a","l","a","d">>, <<"s","o","u","p">>, <<"d","e","s","s","e","r","t">>, <<"c","a","k","e">> >>
route_room_service_keywords == <<
  <<"c","l","e","a","n">>, <<"l","a","u","n","d","r","y">>, <<"t","o","w","e","l">>, <<"t","o","o","t","h">>, <<"p","i","l","l","o","w">>, <<"b","l","a","n","k","e","t">>, <<"a","m","e","n","i","t","y">> >>

intent_restaurant_keywords == <<
  <<"f","o","o","d">>, <<"o","r","d","e","r">>, <<"m","e","n","u">>, <<"c","o","f","f","e","e">>, <<"t","e","a">>, <<"j","u","i","c","e">>, <<"d","r","i","n","k">>, <<"s","n","a","c","k">>,
  <<"b","r","e","a","k","f","a","s","t">>, <<"l","u","n","c","h">>, <<"d","i","n","n","e","r">>, <<"r","e","s","t","a","u","r","a","n","t">>, <<"p","i","z","z","a">>, <<"f","r","i","e","s">>,
  <<"b","u","r","g","e","r">>, <<"s","a","n","d","w","i","c","h">>, <<"s","a","l","a","d">>, <<"s","o","u","p">>, <<"d","e","s","s","e","r","t">>, <<"c","a","k","e">> >>
intent_room_service_keywords == <<
  <<"c","l","e","a","n">>, <<"l","a","u","n","d","r","y">>, <<"t","o","w","e","l">>, <<"t","o","o","t","h">>, <<"b","r","u","s","h">>, <<"p","i","l","l","o","w">>, <<"b","l","a","n","k","e","t">>,
  <<"a","m","e","n","i","t","y">>, <<"t","o","i","l","e","t","r","i","e","s">>, <<"t","o","o","t","h","p","a","s","t","e">>, <<"t","o","o","t","h","b","r","u","s","h">>, <<"h","o","u","s","e","k","e","e","p","i","n","g">>,
  <<"r","o","o","m"," ","s","e","r","v","i","c","e">> >>
intent_receptionist_keywords == <<
  <<"c","h","e","c","k","-","i","n">>, <<"c","h","e","c","k"," ","i","n">>, <<"c","h","e","c","k","-","o","u","t">>, <<"c","h","e","c","k"," ","o","u","t">>, <<"g","y","m">>, <<"s","p","a">>, <<"p","o","o","l">>,
  <<"a","v","a","i","l","a","b","i","l","i","t","y">>, <<"a","v","a","i","l","a","b","l","e">>, <<"r","o","o","m"," ","a","v","a","i","l","a","b","i","l","i","t","y">> >>

\* re.search(rf"\\b{token}s?\\b", text): in this raw string \\b is an escaped
\* backslash followed by the letter b, not the word boundary \b
SearchBackslashB(text, token) ==
  \/ Contains(text, <<"\\", "b">> \o token \o <<"\\", "b">>)
  \/ Contains(text, <<"\\", "b">> \o token \o <<"s", "\\", "b">>)

_mentions_menu_item(text) ==
  \E k \in 1..Len(MENU) :
    LET name == lower(MENU[k].name)
    IN /\ Len(name) > 0
       /\ \/ Contains(text, name)
          \/ \E token \in NameTokens(name) : SearchBackslashB(text, token)

\* re.search(r"\broom\s*(\d{1,4})\b", message.lower()): the digits of the leftmost match
RoomPhrase(text) ==
  LET word == <<"r","o","o","m">>
      digitsAt(d, n) ==
        /\ d + n - 1 <= Len(text)
        /\ \A k \in d..(d + n - 1) : IsDigit(text[k])
        /\ Boundary(text, d + n - 1)
      \* <<start of "room", first digit, number of digits>> of every way to match
      ways == {w \in (1..Len(text)) \X (1..Len(text)) \X (1..4) :
                 /\ StartsAt(text, word, w[1])
                 /\ Boundary(text, w[1] - 1)
                 /\ w[2] >= w[1] + Len(word)
                 /\ AllSpace(text, w[1] + Len(word), w[2] - 1)
                 /\ digitsAt(w[2], w[3])}
  IN IF ways = {} THEN Absent
     ELSE LET s == Min({w[1] : w \in ways})
              \* \s* is greedy, then \d{1,4} is greedy
              d == Max({w[2] : w \in {x \in ways : x[1] = s}})
              n == Max({w[3] : w \in {x \in ways : x[1] = s /\ x[2] = d}})
          IN Some(SubSeq(text, d, d + n - 1))

\* re.findall(r"\b(\d{3,4})\b", message)
StandaloneNumbers(message) ==
  {r \in DigitRuns(message) :
     /\ r[2] - r[1] + 1 \in {3, 4}
     /\ Boundary(message, r[1] - 1)
     /\ Boundary(message, r[2])}

\* the room number as text; << >> is None
NoRoom == << >>

\* _extract_room_number were the test of line 140 "if numbers": the first
\* standalone number is taken however many there are
_extract_room_number_first(message) ==
  LET phrase == RoomPhrase(lower(message))
      numbers == StandaloneNumbers(message)
  IN IF IsPresent(phrase) THEN The(phrase)
     ELSE IF numbers # {}
          THEN LET r == CHOOSE q \in numbers : \A p \in numbers : q[1] <= p[1]
               IN SubSeq(message, r[1], r[2])
          ELSE NoRoom

_extract_room_number(message) ==
  LET phrase == RoomPhrase(lower(message))
      numbers == StandaloneNumbers(message)
  IN IF IsPresent(phrase) THEN The(phrase)
     ELSE IF Cardinality(numbers) = 1
          THEN LET r == CHOOSE q \in numbers : TRUE IN SubSeq(message, r[1], r[2])
          ELSE NoRoom

\* the heuristic vector were receptionist forced whenever restaurant is not set
HeuristicIntents_forced(message) ==
  LET text == lower(message)
      rest == _mentions_menu_item(text) \/ ContainsAny(text, intent_restaurant_keywords)
      rs == ContainsAny(text, intent_room_service_keywords)
      rec == ContainsAny(text, intent_receptionist_keywords) \/ ~rest
  IN <<rest, rs, rec>>

\* lines 157-216: the heuristic intent vector <<restaurant, room_service, receptionist>>
HeuristicIntents(message) ==
  LET text == lower(message)
      rest == _mentions_menu_item(text) \/ ContainsAny(text, intent_restaurant_keywords)
      rs == ContainsAny(text, intent_room_service_keywords)
      rec == ContainsAny(text, intent_receptionist_keywords) \/ (~rest /\ ~rs)
  IN <<rest, rs, rec>>

\* lines 26-55 of route_department: the keyword match, or None
HeuristicDepartment(message) ==
  LET text == lower(message)
  IN IF ContainsAny(text, route_restaurant_keywords) \/ _mentions_menu_item(text)
     THEN Some("restaurant")
     ELSE IF ContainsAny(text, route_room_service_keywords) THEN Some("room_service")
     ELSE Absent

-----------------------------------------------------------------------------
(* app/agents/receptionist_agent.py *)

\* which reply _route_reception chooses
_route_reception(text) ==
  CASE Contains(text, <<"c","h","e","c","k","-","i","n">>) \/ Contains(text, <<"c","h","e","c","k"," ","i","n">>) -> "check_in"
    [] Contains(text, <<"c","h","e","c","k","-","o","u","t">>) \/ Contains(text, <<"c","h","e","c","k"," ","o","u","t">>) -> "check_out"
    [] Contains(text, <<"g","y","m">>) -> "gym"
    [] Contains(text, <<"s","p","a">>) -> "spa"
    [] Contains(text, <<"p","o","o","l">>) \/ Contains(text, <<"s","w","i","m","m","i","n","g">>) -> "pool"
    [] \/ Contains(text, <<"a","v","a","i","l","a","b","l","e">>) \/ Contains(text, <<"a","v","a","i","l","a","b","i","l","i","t","y">>)
       \/ Contains(text, <<"r","o","o","m">>) -> "availability"
    [] OTHER -> "capabilities"

-----------------------------------------------------------------------------
(* app/agents/llm_client.py *)

\* What the remote oracle does with one request:
\*   raise : chat.completions.create raises (transport, auth, rate limit)
\*   empty : a response without choices
\*   none  : a response whose message content is None
\*   text  : a content that is no JSON document (content.v, a str)
\*   json  : a content that is the JSON document of the value content
RemoteRaise(e) == [kind |-> "raise", error |-> e, content |-> JNull]
RemoteEmpty == [kind |-> "empty", error |-> "", content |-> JNull]
RemoteNone == [kind |-> "none", error |-> "", content |-> JNull]
RemoteText(s) == [kind |-> "text", error |-> "", content |-> JStr(s)]
RemoteJson(v) == [kind |-> "json", error |-> "", content |-> v]
\* no request is made
NoRequest == [kind |-> "unused", error |-> "", content |-> JNull]

\* LLMClient.__init__: last_error of a client without a binding
NotInitialized == "OpenAI client not initialized (missing key or library)."
InitialLastError(bound) == IF bound THEN "" ELSE NotInitialized

\* the statements of a try block up to response.choices[0].message.content
CompletionContent(resp) ==
  CASE resp.kind = "raise" -> Raise(resp.error)
    [] resp.kind = "empty" -> Raise("IndexError")
    [] OTHER -> Return(resp)

\* json.loads(content)
json_loads(resp) ==
  CASE resp.kind = "none" -> Raise("TypeError")
    [] resp.kind = "text" -> Raise("JSONDecodeError")
    [] OTHER -> Return(resp.content)

\* content.strip().lower(), then label.split()[0]
FirstLabel(resp) ==
  IF resp.kind = "none" THEN Raise("AttributeError")
  ELSE LET text == IF resp.kind = "text" THEN resp.content.v ELSE <<"{", "}">>
           words == SplitWords(lower(strip(text)))
       IN IF Len(words) = 0 THEN Raise("IndexError") ELSE Return(JStr(words[1]))

\* a try block without its except clause: the exception reaches the caller
Uncaught(r, prior) ==
  IF r.raised
  THEN [value |-> JNull, raised |-> TRUE, last_error |-> r.error, remote |-> 1]
  ELSE [value |-> r.value, raised |-> FALSE, last_error |-> prior, remote |-> 1]

\* except Exception as exc: self.last_error = str(exc); return None
\* A gateway operation yields the value returned (JNull is None), whether it
\* raised to its caller, the client's last_error and the remote calls made.
Caught(r, prior) ==
  IF r.raised
  THEN [value |-> JNull, raised |-> FALSE, last_error |-> r.error, remote |-> 1]
  ELSE [value |-> r.value, raised |-> FALSE, last_error |-> prior, remote |-> 1]

Unavailable(prior) ==
  [value |-> JNull, raised |-> FALSE, last_error |-> prior, remote |-> 0]

JsonOperation(bound, resp, prior) ==
  IF ~bound THEN Unavailable(prior)
  ELSE LET c == CompletionContent(resp)
       IN Caught(IF c.raised THEN c ELSE json_loads(resp), prior)

classify_department(bound, resp, prior) ==
  IF ~bound THEN Unavailable(prior)
  ELSE LET c == CompletionContent(resp)
       IN Caught(IF c.raised THEN c ELSE FirstLabel(resp), prior)

extract_order(bound, resp, prior) == JsonOperation(bound, resp, prior)
extract_room_service(bound, resp, prior) == JsonOperation(bound, resp, prior)
detect_intents(bound, resp, prior) == JsonOperation(bound, resp, prior)

\* health() reads the client's fields
health(bound, prior) ==
  [value |-> [available |-> bound, last_error |-> prior],
   raised |-> FALSE, last_error |-> prior, remote |-> 0]

-----------------------------------------------------------------------------
(* app/models.py and the collaborators behind the session *)

RestaurantOrderColumns ==
  {"id", "conversation_id", "room_number", "items_json", "total_amount", "status", "created_at"}
RoomServiceRequestColumns ==
  {"id", "conversation_id", "room_number", "request_type", "status", "created_at"}

\* the declarative constructor accepts only the mapped attributes of the class
Construct(columns, kwargs) ==
  IF kwargs \subseteq columns THEN Return(kwargs) ELSE Raise("TypeError")

\* A call is served with at most one collaborator failing:
\*   history   : the queries on conversation_messages raise
\*   lookup    : the queries on restaurant_orders / room_service_requests raise
\*   commit    : Session.commit raises
\*   inventory : the query on rooms raises
Failures == {"none", "history", "lookup", "commit", "inventory"}

\* rows of a table for one conversation, oldest first
RowsOf(table, conversation_id) ==
  SelectSeq(table, LAMBDA r : r.conversation_id = conversation_id)

NextId(table) == IF Len(table) = 0 THEN 1 ELSE Max({table[i].id : i \in 1..Len(table)}) + 1

\* uuid4().hex[:6].upper()
UuidSuffixes == {"3F9A1C"}

-----------------------------------------------------------------------------
(* app/agents/types.py *)

\* the result were its two payload fields filled in each other's place
AgentResult_swapped(reply, department, order, room_service_request) ==
  [reply |-> reply, department |-> department, order |-> room_service_request,
   room_service_request |-> order]

AgentResult(reply, department, order, room_service_request) ==
  [reply |-> reply, department |-> department, order |-> order,
   room_service_request |-> room_service_request]

\* a reply is its lines; "\n".join concatenates them
Line(kind, args) == <<[kind |-> kind, args |-> args]>>

-----------------------------------------------------------------------------
(* The guest messages the model serves.  A message is named by its index in *)
(* Corpus; the functions below tabulate the text analyses of each message.  *)

Corpus == <<
  <<"g","e","t"," ","m","e"," ","c","o","f","f","e","e"," ","a","n","d"," ","f","r","e","s","h"," ","t","o","w","e","l","s">>,
  <<"p","i","z","z","a"," ","a","n","d"," ","f","r","i","e","s">>,
  <<"2"," ","p","i","z","z","a","s">>,
  <<"r","o","o","m"," ","1","0","4">>,
  <<"2"," ","c","o","f","f","e","e">>,
  <<"n","e","e","d"," ","t","o","w","e","l","s">>,
  <<"t","o","w","e","l","s"," ","a","t"," ","t","h","e"," ","p","o","o","l">>,
  <<"h","e","l","l","o">>,
  <<"p","i","z","z","a"," ","a","n","d"," ","f","r","i","e","s"," ","f","r","o","m"," ","t","h","e"," ","m","e","n","u">>,
  <<"c","o","f","f","e","e"," ","a","n","d"," ","a"," ","b","r","o","w","n","i","e">>,
  <<"i","s"," ","t","h","e"," ","g","y","m"," ","o","p","e","n">>,
  <<"E","x","t","r","a"," ","P","i","l","l","o","w","s"," ","p","l","e","a","s","e">> >>

MessageIds == 1..Len(Corpus)

\* a function over the messages, computed once
Tabulated(f) == f @@ << >>

RestaurantParseOf == Tabulated([id \in MessageIds |-> Restaurant_simple_parse(Corpus[id])])
RoomServiceParseOf == Tabulated([id \in MessageIds |-> RoomService_simple_parse(Corpus[id])])
HeuristicIntentsOf == Tabulated([id \in MessageIds |-> HeuristicIntents(Corpus[id])])
HeuristicDepartmentOf == Tabulated([id \in MessageIds |-> HeuristicDepartment(Corpus[id])])
RoomNumberOf == Tabulated([id \in MessageIds |-> _extract_room_number(Corpus[id])])
ReceptionOf == Tabulated([id \in MessageIds |-> _route_reception(lower(Corpus[id]))])
\* "menu" in text or "options" in text
MenuRequestOf ==
  Tabulated([id \in MessageIds |->
               Contains(lower(Corpus[id]), <<"m","e","n","u">>) \/ Contains(lower(Corpus[id]), <<"o","p","t","i","o","n","s">>)])

\* the analyses of the messages; the handlers below take them as T
Analyses ==
  [RestaurantParseOf |-> RestaurantParseOf, RoomServiceParseOf |-> RoomServiceParseOf,
   HeuristicIntentsOf |-> HeuristicIntentsOf, HeuristicDepartmentOf |-> HeuristicDepartmentOf,
   RoomNumberOf |-> RoomNumberOf, ReceptionOf |-> ReceptionOf, MenuRequestOf |-> MenuRequestOf]

-----------------------------------------------------------------------------
(* app/agents/restaurant_agent.py: RestaurantAgent *)

\* what an agent call yields: its result or exception, the tables it leaves,
\* the item lines each _save_order call priced, the remote calls it made
AgentOutcome(res, orderRows, requestRows, saves, remote) ==
  [res |-> res, orders |-> orderRows, requests |-> requestRows, saves |-> saves, remote |-> remote]

\* returns <<order_payload, needs_qty_confirm>>
_extract_order(T, id, from_llm) ==
  IF Truthy(from_llm)
  THEN IF from_llm.t # "dict" THEN Raise("AttributeError")
       ELSE IF Truthy(DictGet(from_llm, <<"i","t","e","m","s">>))
            THEN Return([payload |-> Some(from_llm), needs_qty_confirm |-> FALSE])
            ELSE Return(T.RestaurantParseOf[id])
  ELSE Return(T.RestaurantParseOf[id])

HistoryLimit == 5

\* the query were it to lack .limit(5): every user message of the conversation,
\* newest first
RecentUserMessages_unlimited(db, conversation_id) ==
  LET rows == SelectSeq(db.messages,
                        LAMBDA r : r.conversation_id = conversation_id /\ r.sender = "user")
      n == Len(rows)
  IN [i \in 1..n |-> rows[n + 1 - i]]

\* the user messages of the conversation, newest first, at most five
RecentUserMessages(db, conversation_id) ==
  LET rows == SelectSeq(db.messages,
                        LAMBDA r : r.conversation_id = conversation_id /\ r.sender = "user")
      n == Len(rows)
      k == IF n < HistoryLimit THEN n ELSE HistoryLimit
  IN [i \in 1..k |-> rows[n + 1 - i]]

NothingParsed == [payload |-> Absent, needs_qty_confirm |-> FALSE]

_recover_order_from_history(T, db, conversation_id, fail) ==
  IF fail = "history" THEN NothingParsed
  ELSE LET first(recent, hits) ==
             IF hits = {} THEN NothingParsed ELSE T.RestaurantParseOf[recent[Min(hits)].content]
           parsed(recent) ==
             first(recent, {i \in 1..Len(recent) :
                              IsPresent(T.RestaurantParseOf[recent[i].content].payload)})
       IN parsed(RecentUserMessages(db, conversation_id))

\* the room of the newest row of the conversation, if it has one
LastRoom(table, conversation_id) ==
  LET rows == RowsOf(table, conversation_id)
  IN IF Len(rows) > 0 /\ rows[Len(rows)].room_number # NoRoom
     THEN rows[Len(rows)].room_number ELSE NoRoom

\* the lookup were it to ask the room-service requests before the orders
Restaurant_fallback_room_number_requests_first(db, conversation_id, fail) ==
  IF fail = "lookup" THEN NoRoom
  ELSE IF LastRoom(db.requests, conversation_id) # NoRoom
  THEN LastRoom(db.requests, conversation_id)
  ELSE LastRoom(db.orders, conversation_id)

Restaurant_fallback_room_number(db, conversation_id, fail) ==
  IF fail = "lookup" THEN NoRoom
  ELSE IF LastRoom(db.orders, conversation_id) # NoRoom THEN LastRoom(db.orders, conversation_id)
  ELSE LastRoom(db.requests, conversation_id)

\* one pass of the loop of _save_order: the priced line of an entry
PricedLine(entry) ==
  IF entry.t # "dict" THEN Raise("TypeError")
  ELSE IF ~DictHas(entry, <<"n","a","m","e">>) THEN Raise("KeyError")
  ELSE IF DictGet(entry, <<"n","a","m","e">>).t # "str" THEN Raise("AttributeError")
  ELSE LET line(name, price, quantity) ==
             IF quantity.raised THEN quantity
             ELSE Return([name |-> name, quantity |-> quantity.value, price |-> price])
           priced(name, key) ==
             line(name, IF MenuHas(key) THEN MenuGet(key).price ELSE 0,
                  _coerce_quantity(IF DictHas(entry, <<"q","u","a","n","t","i","t","y">>)
                                   THEN DictGet(entry, <<"q","u","a","n","t","i","t","y">>) ELSE JInt(1)))
           named(name) == priced(name, lower(name))
       IN named(DictGet(entry, <<"n","a","m","e">>).v)

RECURSIVE PricedItems(_)
PricedItems(entries) ==
  IF Len(entries) = 0 THEN Return(<< >>)
  ELSE LET both(head, rest) ==
             IF head.raised THEN head
             ELSE IF rest.raised THEN rest ELSE Return(<<head.value>> \o rest.value)
       IN both(PricedLine(entries[1]), PricedItems(Tail(entries)))

\* total += price * quantity
RECURSIVE TotalOf(_)
TotalOf(lines) ==
  IF Len(lines) = 0 THEN 0 ELSE lines[1].price * lines[1].quantity + TotalOf(Tail(lines))

\* the keyword arguments of RestaurantOrder(...) in _save_order
SaveOrderKwargs ==
  {"conversation_id", "room_number", "items_json", "total_amount", "status", "display_id"}

_save_order(items, room_number, conversation_id, db, fail, suffix) ==
  LET save(lines, total, id, display_id, record) ==
        IF record.raised
        THEN AgentOutcome(record, db.orders, db.requests, <<lines>>, 0)
        ELSE IF fail = "commit"
        THEN AgentOutcome(Raise("OperationalError"), db.orders, db.requests, <<lines>>, 0)
        ELSE AgentOutcome(
               Return([id |-> id, display_id |-> display_id, room_number |-> room_number,
                       items |-> lines, total_amount |-> total, status |-> "Pending"]),
               Append(db.orders,
                      [id |-> id, conversation_id |-> conversation_id,
                       room_number |-> room_number, items |-> lines,
                       total_amount |-> total, status |-> "Pending",
                       display_id |-> display_id]),
               db.requests, <<lines>>, 0)
      priced(lines) ==
        IF lines.raised THEN AgentOutcome(lines, db.orders, db.requests, << >>, 0)
        ELSE save(lines.value, TotalOf(lines.value), NextId(db.orders),
                  Some(<<"RES", room_number, suffix>>),
                  Construct(RestaurantOrderColumns, SaveOrderKwargs))
  IN priced(IF items.t = "list" THEN PricedItems(items.v) ELSE Raise("TypeError"))

\* the names the confirmation reply lists, each as "1x <name>"
ConfirmNames(payload) ==
  LET names(items) == [i \in 1..Len(items) |-> DictGet(items[i], <<"n","a","m","e">>).v]
  IN names(DictGet(payload, <<"i","t","e","m","s">>).v)

\* not order_payload or not order_payload.get("items")
NoItems(parsed) == IsAbsent(parsed.payload) \/ ~Truthy(DictGet(The(parsed.payload), <<"i","t","e","m","s">>))

Restaurant_handle(T, id, room_number, conversation_id, db, bound, resp, fail, suffix) ==
  LET reply(line, remote) ==
        AgentOutcome(Return(AgentResult(line, "restaurant", Absent, Absent)),
                     db.orders, db.requests, << >>, remote)
      placed(saved, room, remote) ==
        IF saved.res.raised THEN [saved EXCEPT !.remote = remote]
        ELSE [saved EXCEPT
                !.remote = remote,
                !.res = Return(AgentResult(
                                 Line("order_placed", <<room, saved.res.value.total_amount>>),
                                 "restaurant", Some(saved.res.value), Absent))]
      roomed(parsed, room, remote) ==
        IF room = NoRoom THEN reply(Line("ask_room", << >>), remote)
        ELSE placed(_save_order(DictGet(The(parsed.payload), <<"i","t","e","m","s">>), room, conversation_id,
                                db, fail, suffix),
                    room, remote)
      itemized(parsed, remote) ==
        IF NoItems(parsed) THEN reply(Line("ask_items", << >>), remote)
        ELSE IF parsed.needs_qty_confirm
        THEN reply(Line("confirm_quantities", ConfirmNames(The(parsed.payload))), remote)
        ELSE roomed(parsed,
                    IF room_number # NoRoom THEN room_number
                    ELSE Restaurant_fallback_room_number(db, conversation_id, fail),
                    remote)
      extracted(first, remote) ==
        IF first.raised THEN AgentOutcome(first, db.orders, db.requests, << >>, remote)
        ELSE itemized(IF NoItems(first.value) /\ room_number # NoRoom
                      THEN _recover_order_from_history(T, db, conversation_id, fail)
                      ELSE first.value,
                      remote)
      asked(llm) == extracted(_extract_order(T, id, llm.value), llm.remote)
  IN IF T.MenuRequestOf[id] THEN reply(Line("menu", << >>), 0)
     ELSE asked(extract_order(bound, resp, ""))
-----------------------------------------------------------------------------
(* app/agents/room_service_agent.py: RoomServiceAgent *)

\* parsed["request_type"] = normalize(parsed["request_type"]) or parsed["request_type"]
NormalizedOrRaw(parsed) ==
  LET or(n) == IF IsPresent(n) /\ Len(The(n)) > 0 THEN n ELSE parsed
  IN IF IsAbsent(parsed) THEN Absent
     ELSE or(_normalize_request_type(JStr(The(parsed))).value)

\* _extract_request were it to accept the gateway's request_type as it came
\* when normalization finds no canonical name for it
_extract_request_raw(T, id, from_llm) ==
  LET normalized(n, rt) ==
        IF n.raised THEN n
        ELSE IF IsPresent(n.value) /\ Len(The(n.value)) > 0 THEN n
        ELSE IF rt.t = "str" /\ Len(rt.v) > 0 THEN Return(Some(rt.v))
        ELSE Return(NormalizedOrRaw(T.RoomServiceParseOf[id]))
      typed(rt) ==
        normalized(IF Truthy(rt) THEN _normalize_request_type(rt) ELSE Return(Absent), rt)
  IN IF Truthy(from_llm) /\ from_llm.t # "dict" THEN Raise("AttributeError")
     ELSE typed(IF Truthy(from_llm) THEN DictGet(from_llm, <<"r","e","q","u","e","s","t","_","t","y","p","e">>) ELSE JNull)

\* returns the request_type of the payload, or None
_extract_request(T, id, from_llm) ==
  LET normalized(n) ==
        IF n.raised THEN n
        ELSE IF IsPresent(n.value) /\ Len(The(n.value)) > 0 THEN n
        ELSE Return(NormalizedOrRaw(T.RoomServiceParseOf[id]))
      typed(rt) == normalized(IF Truthy(rt) THEN _normalize_request_type(rt) ELSE Return(Absent))
  IN IF Truthy(from_llm) /\ from_llm.t # "dict" THEN Raise("AttributeError")
     ELSE typed(IF Truthy(from_llm) THEN DictGet(from_llm, <<"r","e","q","u","e","s","t","_","t","y","p","e">>) ELSE JNull)

_recover_request_from_history(T, db, conversation_id, fail) ==
  LET first(recent, hits) ==
        IF hits = {} THEN Absent
        ELSE NormalizedOrRaw(T.RoomServiceParseOf[recent[Min(hits)].content])
      parsed(recent) ==
        first(recent, {i \in 1..Len(recent) : IsPresent(T.RoomServiceParseOf[recent[i].content])})
  IN IF fail = "history" THEN Absent
     ELSE parsed(RecentUserMessages(db, conversation_id))

RoomService_fallback_room_number(db, conversation_id, fail) ==
  IF fail = "lookup" THEN NoRoom
  ELSE IF LastRoom(db.requests, conversation_id) # NoRoom
  THEN LastRoom(db.requests, conversation_id)
  ELSE LastRoom(db.orders, conversation_id)

\* the keyword arguments of RoomServiceRequest(...) in _save_request
SaveRequestKwargs == {"conversation_id", "room_number", "request_type", "status"}

_save_request(request_type, room_number, conversation_id, db, fail) ==
  LET record == Construct(RoomServiceRequestColumns, SaveRequestKwargs)
      id == NextId(db.requests)
      row == [id |-> id, conversation_id |-> conversation_id, room_number |-> room_number,
              request_type |-> request_type, status |-> "Pending"]
      \* the dict returned: id, room_number, request_type, status (and created_at)
      payload == [id |-> id, room_number |-> room_number, request_type |-> request_type,
                  status |-> "Pending"]
  IN IF record.raised THEN AgentOutcome(record, db.orders, db.requests, << >>, 0)
     ELSE IF fail = "commit"
     THEN AgentOutcome(Raise("OperationalError"), db.orders, db.requests, << >>, 0)
     ELSE AgentOutcome(Return(payload), db.orders, Append(db.requests, row), << >>, 0)

RoomService_handle(T, id, room_number, conversation_id, db, bound, resp, fail) ==
  LET reply(line, remote) ==
        AgentOutcome(Return(AgentResult(line, "room_service", Absent, Absent)),
                     db.orders, db.requests, << >>, remote)
      logged(saved, room, remote) ==
        IF saved.res.raised THEN [saved EXCEPT !.remote = remote]
        ELSE [saved EXCEPT
                !.remote = remote,
                !.res = Return(AgentResult(
                                 Line("request_logged",
                                      <<title(saved.res.value.request_type), room,
                                        saved.res.value.status>>),
                                 "room_service", Absent, Some(saved.res.value)))]
      roomed(request, room, remote) ==
        IF room = NoRoom THEN reply(Line("confirm_room", << >>), remote)
        ELSE logged(_save_request(The(request), room, conversation_id, db, fail), room, remote)
      requested(request, remote) ==
        IF IsAbsent(request) THEN reply(Line("room_service_capabilities", << >>), remote)
        ELSE roomed(request,
                    IF room_number # NoRoom THEN room_number
                    ELSE RoomService_fallback_room_number(db, conversation_id, fail),
                    remote)
      extracted(first, remote) ==
        IF first.raised THEN AgentOutcome(first, db.orders, db.requests, << >>, remote)
        ELSE requested(IF IsAbsent(first.value) /\ room_number # NoRoom
                       THEN _recover_request_from_history(T, db, conversation_id, fail)
                       ELSE first.value,
                       remote)
      asked(llm) == extracted(_extract_request(T, id, llm.value), llm.remote)
  IN asked(extract_room_service(bound, resp, ""))

-----------------------------------------------------------------------------
(* app/agents/receptionist_agent.py: ReceptionistAgent *)

Receptionist_handle(T, id, db, fail) ==
  LET kind == T.ReceptionOf[id]
  IN IF kind = "availability" /\ fail = "inventory"
     THEN AgentOutcome(Raise("OperationalError"), db.orders, db.requests, << >>, 0)
     ELSE AgentOutcome(Return(AgentResult(Line(kind, << >>), "receptionist", Absent, Absent)),
                       db.orders, db.requests, << >>, 0)

-----------------------------------------------------------------------------
(* app/agents/orchestrator.py: AgentOrchestrator *)

Departments == {"receptionist", "restaurant", "room_service"}

\* the department of the newest agent-authored row of the conversation, or None
_last_department(db, conversation_id, fail) ==
  IF fail = "history" THEN Absent
  ELSE LET rows == SelectSeq(db.messages,
                             LAMBDA r : r.conversation_id = conversation_id /\ r.sender = "agent")
       IN IF Len(rows) > 0 /\ rows[Len(rows)].department # ""
          THEN Some(rows[Len(rows)].department) ELSE Absent

\* a department name as the text the gateway returns
DepartmentText(d) ==
  CASE d = "receptionist" -> <<"r","e","c","e","p","t","i","o","n","i","s","t">>
    [] d = "restaurant" -> <<"r","e","s","t","a","u","r","a","n","t">>
    [] d = "room_service" -> <<"r","o","o","m","_","s","e","r","v","i","c","e">>

\* returns the department and the remote calls made
route_department(T, id, conversation_id, db, bound, resp, fail) ==
  LET chain(label, last, remote) ==
        [remote |-> remote,
         department |->
           IF \E d \in Departments : label.t = "str" /\ label.v = DepartmentText(d)
           THEN CHOOSE d \in Departments : label.v = DepartmentText(d)
           ELSE IF IsPresent(T.HeuristicDepartmentOf[id]) THEN The(T.HeuristicDepartmentOf[id])
           ELSE IF conversation_id # "" /\ IsPresent(last) THEN The(last)
           ELSE "receptionist"]
      classified(llm) == chain(llm.value, _last_department(db, conversation_id, fail), llm.remote)
  IN classified(classify_department(bound, resp, ""))

\* returns the vector <<restaurant, room_service, receptionist>> and the remote calls made
_detect_intents(T, id, bound, resp) ==
  LET vector(v, remote) ==
        IF Truthy(v)
        THEN IF v.t # "dict" THEN [res |-> Raise("AttributeError"), remote |-> remote]
             ELSE [res |-> Return(<<Truthy(DictGet(v, <<"r","e","s","t","a","u","r","a","n","t">>)),
                                    Truthy(DictGet(v, <<"r","o","o","m","_","s","e","r","v","i","c","e">>)),
                                    Truthy(DictGet(v, <<"r","e","c","e","p","t","i","o","n","i","s","t">>))>>),
                   remote |-> remote]
        ELSE [res |-> Return(T.HeuristicIntentsOf[id]), remote |-> remote]
      detected(llm) == vector(llm.value, llm.remote)
  IN detected(IF bound THEN detect_intents(bound, resp, "") ELSE Unavailable(""))

\* the gateway responses of one call, one per operation
Script(intents, label, order, room_service) ==
  [intents |-> intents, label |-> label, order |-> order, room_service |-> room_service]

\* agent.handle(message, room_number, conversation_id) of the named agent
Invoke(T, agent, id, room_number, conversation_id, db, bound, script, fail, suffix) ==
  CASE agent = "restaurant" ->
         Restaurant_handle(T, id, room_number, conversation_id, db, bound, script.order, fail, suffix)
    [] agent = "room_service" ->
         RoomService_handle(T, id, room_number, conversation_id, db, bound, script.room_service, fail)
    [] OTHER -> Receptionist_handle(T, id, db, fail)

\* what handle yields: its result or exception, the tables it leaves, and what
\* it did on the way: the agents invoked in order with what each returned or
\* raised, the item lines priced by _save_order, the remote calls made, the
\* room number and intent vector it worked with
HandleOutcome(res, db, agents, results, saves, remote, room, intents) ==
  [res |-> res, orders |-> db.orders, requests |-> db.requests, agents |-> agents,
   results |-> results, saves |-> saves, remote |-> remote, room |-> room,
   intents |-> intents]

\* the loop were the try block around the whole loop: the first agent that
\* raises ends it
RECURSIVE MultiLoop_aborting(_, _, _, _, _, _, _, _, _, _, _)
MultiLoop_aborting(T, intents, k, acc, id, room_number, conversation_id, bound, script, fail, suffix) ==
  LET after(o) ==
        [db |-> [acc.db EXCEPT !.orders = o.orders, !.requests = o.requests],
         replies |-> IF o.res.raised THEN acc.replies ELSE acc.replies \o o.res.value.reply,
         replied |-> acc.replied \/ ~o.res.raised,
         order_payload |->
           IF ~o.res.raised /\ intents[k] = "restaurant" /\ IsAbsent(acc.order_payload)
           THEN o.res.value.order ELSE acc.order_payload,
         rs_payload |->
           IF ~o.res.raised /\ intents[k] = "room_service" /\ IsAbsent(acc.rs_payload)
           THEN o.res.value.room_service_request ELSE acc.rs_payload,
         agents |-> Append(acc.agents, intents[k]),
         results |-> Append(acc.results, o.res),
         saves |-> acc.saves \o o.saves,
         remote |-> acc.remote + o.remote]
      rest(o, next) ==
        IF o.res.raised THEN next
        ELSE MultiLoop_aborting(T, intents, k + 1, next, id, room_number, conversation_id,
                                bound, script, fail, suffix)
      tried(o) == rest(o, after(o))
  IN IF k > Len(intents) THEN acc
     ELSE tried(Invoke(T, intents[k], id, room_number, conversation_id, acc.db, bound, script,
                       fail, suffix))

\* the loop of _handle_multi from the k-th intent on; acc carries the locals
RECURSIVE MultiLoop(_, _, _, _, _, _, _, _, _, _, _)
MultiLoop(T, intents, k, acc, id, room_number, conversation_id, bound, script, fail, suffix) ==
  LET after(o, ok) ==
        [db |-> [acc.db EXCEPT !.orders = o.orders, !.requests = o.requests],
         replies |-> IF ok THEN acc.replies \o o.res.value.reply ELSE acc.replies,
         replied |-> acc.replied \/ ok,
         order_payload |->
           IF ok /\ intents[k] = "restaurant" /\ IsAbsent(acc.order_payload)
           THEN o.res.value.order ELSE acc.order_payload,
         rs_payload |->
           IF ok /\ intents[k] = "room_service" /\ IsAbsent(acc.rs_payload)
           THEN o.res.value.room_service_request ELSE acc.rs_payload,
         agents |-> Append(acc.agents, intents[k]),
         results |-> Append(acc.results, o.res),
         saves |-> acc.saves \o o.saves,
         remote |-> acc.remote + o.remote]
      tried(o) == after(o, ~o.res.raised)
  IN IF k > Len(intents) THEN acc
     ELSE MultiLoop(T, intents, k + 1,
                    tried(Invoke(T, intents[k], id, room_number, conversation_id, acc.db, bound,
                                 script, fail, suffix)),
                    id, room_number, conversation_id, bound, script, fail, suffix)

_handle_multi(T, intents, id, room_number, conversation_id, db, bound, script, fail, suffix) ==
  LET combined(end) ==
        [res |-> Return(AgentResult(IF end.replied THEN end.replies
                                    ELSE Line("request_received", << >>),
                                    "multi", end.order_payload, end.rs_payload)),
         end |-> end]
  IN combined(MultiLoop(T, intents, 1,
                        [db |-> db, replies |-> << >>, replied |-> FALSE,
                         order_payload |-> Absent, rs_payload |-> Absent, agents |-> << >>,
                         results |-> << >>, saves |-> << >>, remote |-> 0],
                        id, room_number, conversation_id, bound, script, fail, suffix))

\* the agents of the intent bits set were the receptionist to answer first
IntentAgents_receptionist_first(v) ==
  (IF v[3] THEN <<"receptionist">> ELSE << >>)
  \o (IF v[1] THEN <<"restaurant">> ELSE << >>)
  \o (IF v[2] THEN <<"room_service">> ELSE << >>)

\* the agents of the intent bits set, in the order of _handle_multi
IntentAgents(v) ==
  (IF v[1] THEN <<"restaurant">> ELSE << >>)
  \o (IF v[2] THEN <<"room_service">> ELSE << >>)
  \o (IF v[3] THEN <<"receptionist">> ELSE << >>)

\* handle were the single-intent shortcuts of lines 114-119 missing: the
\* department of route_department decides whenever at most one bit is set
Orchestrator_handle_label_first(T, id, room_number, conversation_id, db, bound, script, fail, suffix) ==
  LET invoked(o, agent, remote, room, v) ==
        HandleOutcome(o.res, [db EXCEPT !.orders = o.orders, !.requests = o.requests],
                      <<agent>>, <<o.res>>, o.saves, remote + o.remote, room, Some(v))
      single(agent, remote, room, v) ==
        invoked(Invoke(T, agent, id, room, conversation_id, db, bound, script, fail, suffix),
                agent, remote, room, v)
      routed(r, remote, room, v) ==
        single(IF r.department \in {"restaurant", "room_service"} THEN r.department
               ELSE "receptionist",
               remote + r.remote, room, v)
      combined(m, remote, room, v) ==
        HandleOutcome(m.res, m.end.db, m.end.agents, m.end.results, m.end.saves,
                      remote + m.end.remote, room, Some(v))
      dispatch(v, remote, room) ==
        IF Len(IntentAgents(v)) > 1
        THEN combined(_handle_multi(T, IntentAgents(v), id, room, conversation_id, db, bound,
                                    script, fail, suffix),
                      remote, room, v)
        ELSE routed(route_department(T, id, conversation_id, db, bound, script.label, fail),
                    remote, room, v)
      detected(d, room) ==
        IF d.res.raised
        THEN HandleOutcome(d.res, db, << >>, << >>, << >>, d.remote, room, Absent)
        ELSE dispatch(d.res.value, d.remote, room)
  IN detected(_detect_intents(T, id, bound, script.intents),
              IF room_number = NoRoom THEN T.RoomNumberOf[id] ELSE room_number)

Orchestrator_handle(T, id, room_number, conversation_id, db, bound, script, fail, suffix) ==
  LET invoked(o, agent, remote, room, v) ==
        HandleOutcome(o.res, [db EXCEPT !.orders = o.orders, !.requests = o.requests],
                      <<agent>>, <<o.res>>, o.saves, remote + o.remote, room, Some(v))
      single(agent, remote, room, v) ==
        invoked(Invoke(T, agent, id, room, conversation_id, db, bound, script, fail, suffix),
                agent, remote, room, v)
      routed(r, remote, room, v) ==
        single(IF r.department \in {"restaurant", "room_service"} THEN r.department
               ELSE "receptionist",
               remote + r.remote, room, v)
      combined(m, remote, room, v) ==
        HandleOutcome(m.res, m.end.db, m.end.agents, m.end.results, m.end.saves,
                      remote + m.end.remote, room, Some(v))
      dispatch(v, remote, room) ==
        IF Len(IntentAgents(v)) > 1
        THEN combined(_handle_multi(T, IntentAgents(v), id, room, conversation_id, db, bound,
                                    script, fail, suffix),
                      remote, room, v)
        ELSE IF v[1] \/ v[2] \/ v[3] THEN single(IntentAgents(v)[1], remote, room, v)
        ELSE routed(route_department(T, id, conversation_id, db, bound, script.label, fail),
                    remote, room, v)
      detected(d, room) ==
        IF d.res.raised
        THEN HandleOutcome(d.res, db, << >>, << >>, << >>, d.remote, room, Absent)
        ELSE dispatch(d.res.value, d.remote, room)
  IN detected(_detect_intents(T, id, bound, script.intents),
              IF room_number = NoRoom THEN T.RoomNumberOf[id] ELSE room_number)
-----------------------------------------------------------------------------
(* app/main.py: POST /api/chat for a request without a user_id.  Line 233  *)
(* also calls classify_department, for the log line only; that call is not *)
(* among the remote calls the model counts.                                *)

Database == [messages |-> messages, orders |-> orders, requests |-> requests]

\* lines 246-262: the two rows a served request adds to conversation_messages
ChatRows(id, conversation_id, result) ==
  << [conversation_id |-> conversation_id, sender |-> "user",
      department |-> result.department, content |-> id],
     [conversation_id |-> conversation_id, sender |-> "agent",
      department |-> result.department, content |-> result.reply] >>

\* lines 231-262: the tables after the request and what handle yielded
ChatEffect(T, db, id, room_number, conversation_id, bound, script, fail, suffix) ==
  LET effect(h, served) ==
        [handled |-> h,
         served |-> served,
         db |-> [messages |-> IF served
                              THEN db.messages \o ChatRows(id, conversation_id, h.res.value)
                              ELSE db.messages,
                 orders |-> h.orders,
                 requests |-> h.requests]]
      handled(h) == effect(h, ~h.res.raised /\ fail # "commit")
  IN handled(Orchestrator_handle(T, id, room_number, conversation_id, db, bound, script, fail,
                                 suffix))

chat(id, room_number, conversation_id, script, fail, suffix) ==
  \E T \in {Analyses} :
  \E e \in {ChatEffect(T, Database, id, room_number, conversation_id, available, script, fail,
                       suffix)} :
     /\ messages' = e.db.messages
     /\ orders' = e.db.orders
     /\ requests' = e.db.requests
     /\ call' = [op |-> "chat", message |-> id, room_number |-> room_number,
                 conversation_id |-> conversation_id, script |-> script, fail |-> fail]
     /\ outcome' = e.handled.res
     /\ trace' = [agents |-> e.handled.agents, results |-> e.handled.results,
                  saves |-> e.handled.saves, remote |-> e.handled.remote,
                  room |-> e.handled.room, intents |-> e.handled.intents,
                  served |-> e.served]
     /\ turn' = turn + 1
     /\ UNCHANGED <<available, last_error, users, rooms, sessions>>
-----------------------------------------------------------------------------
(* app/main.py: room allocation.  The endpoints are synchronous functions, *)
(* which the server runs on worker threads, each request with a session of *)
(* its own; a request's queries read what has been committed, and its      *)
(* changes reach the tables when it commits.                               *)

\* str(number) for a three-digit number
RoomKey(number) ==
  <<DigitChars[(number \div 100) + 1], DigitChars[((number \div 10) % 10) + 1],
    DigitChars[(number % 10) + 1]>>

\* lines 51-60: the rooms the startup seeds into an empty table, all available
_seed_rooms ==
  [room_number \in {RoomKey(number) : number \in (101..119) \cup (201..229) \cup (301..339)}
     |-> TRUE]

UserIds == {"u1", "u2"}
Workers == {"w1", "w2"}
Idle == [op |-> "idle"]

\* lines 45-48: the tables and the workers once the application has started
startup_event ==
  /\ users = << >>
  /\ rooms = _seed_rooms
  /\ sessions = [w \in Workers |-> Idle]

\* lines 78-84: group 1 of the leftmost match of \broom\s*(\d{3})\b
RequestedRoomMatches(text) ==
  {m \in (1..Len(text)) \X (1..Len(text)) :
     /\ Boundary(text, m[1] - 1)
     /\ StartsAt(text, <<"r","o","o","m">>, m[1])
     /\ m[2] >= m[1] + 4 /\ m[2] + 2 <= Len(text)
     /\ AllSpace(text, m[1] + 4, m[2] - 1)
     /\ \A k \in m[2]..(m[2] + 2) : IsDigit(text[k])
     /\ Boundary(text, m[2] + 2)}
_extract_requested_room(message) ==
  LET text == lower(message)
      found == RequestedRoomMatches(text)
  IN IF found = {} THEN NoRoom
     ELSE LET m == CHOOSE x \in found : \A y \in found : x[1] <= y[1]
          IN SubSeq(text, m[2], m[2] + 2)

\* lines 87-110
_is_room_booking_request(message) ==
  ContainsAny(lower(message),
    << <<"b","o","o","k">>, <<"r","e","s","e","r","v","e">>, <<"r","o","o","m">>, <<"a","v","a","i","l","a","b","i","l","i","t","y">>, <<"c","h","e","c","k"," ","i","n">>, <<"c","h","e","c","k","-","i","n">>,
       <<"a","v","a","i","l","a","b","l","e">>, <<"v","a","c","a","n","c","y">>, <<"n","e","e","d"," ","a"," ","r","o","o","m">>, <<"l","o","o","k","i","n","g"," ","f","o","r"," ","a"," ","r","o","o","m">>, <<"g","e","t"," ","a"," ","r","o","o","m">>,
       <<"w","a","n","t"," ","a"," ","r","o","o","m">>, <<"r","o","o","m"," ","f","o","r"," ","t","h","e"," ","n","i","g","h","t">>, <<"r","o","o","m"," ","t","o","n","i","g","h","t">>, <<"s","t","a","y">>,
       <<"a","c","c","o","m","m","o","d","a","t","i","o","n">>, <<"l","o","d","g","i","n","g">>, <<"r","o","o","m"," ","b","o","o","k","i","n","g">>, <<"r","o","o","m"," ","r","e","s","e","r","v","a","t","i","o","n">> >>)

\* lines 113-125
_is_billing_request(message) ==
  ContainsAny(lower(message),
    << <<"b","i","l","l">>, <<"i","n","v","o","i","c","e">>, <<"p","a","y">>, <<"p","a","y","m","e","n","t">>, <<"t","o","t","a","l">>, <<"c","h","e","c","k","o","u","t">>, <<"c","h","a","r","g","e">>,
       <<"s","e","t","t","l","e">> >>)

\* .order_by(Room.room_number.asc()).first() over the rows of S
FirstRoom(S) ==
  IF S = {} THEN Absent
  ELSE Some(CHOOSE r \in S : \A q \in S : int(r) <= int(q))

AvailableRooms(table) == {r \in DOMAIN table : table[r]}

\* lines 171-189: the room the queries find in the committed table, if any
FindRoom(table, requested_room) ==
  LET free == AvailableRooms(table)
      asked == IF requested_room # NoRoom /\ requested_room \in free
               THEN Some(requested_room) ELSE Absent
      requested_floor == DigitValue(requested_room[1])
      better_room == IF requested_room # NoRoom /\ IsAbsent(asked) /\ requested_floor < 3
                     THEN FirstRoom({r \in free : DigitValue(r[1]) = requested_floor + 1})
                     ELSE Absent
      room == IF IsPresent(asked) THEN asked ELSE better_room
  IN IF IsPresent(room) THEN room ELSE FirstRoom(free)

\* lines 191-201: the reply of the booking branch
BookingReply(requested_room, room) ==
  IF IsAbsent(room)
  THEN <<"S","o","r","r","y",","," ","n","o"," ","r","o","o","m","s"," ","a","r","e"," ","a","v","a","i","l","a","b","l","e"," ","r","i","g","h","t"," ","n","o","w","."," ","P","l","e","a","s","e"," ","c","h","e","c","k"," ","b","a","c","k"," ","l","a","t","e","r",".">>
  ELSE IF requested_room # NoRoom /\ requested_room # The(room)
  THEN <<"T","h","a","t"," ","r","o","o","m"," ","i","s"," ","a","l","r","e","a","d","y"," ","b","o","o","k","e","d","."," ","I","'","v","e"," ","a","l","l","o","c","a","t","e","d"," ","y","o","u"," ","a"," ","b","e","t","t","e","r"," ","r","o","o","m",":"," ">> \o The(room)
       \o <<".">>
  ELSE <<"R","o","o","m"," ">> \o The(room) \o <<" ","i","s"," ","b","o","o","k","e","d"," ","f","o","r"," ","y","o","u","."," ","Y","o","u"," ","c","a","n"," ","n","o","w"," ","u","s","e"," ","t","h","e"," ","c","h","a","t"," ","f","o","r"," ","r","e","q","u","e","s","t","s",".">>

\* lines 205-220: the two rows the booking branch adds to conversation_messages
BookingRows(message, conversation_id, reply) ==
  << [conversation_id |-> conversation_id, sender |-> "user",
      department |-> "receptionist", content |-> message],
     [conversation_id |-> conversation_id, sender |-> "agent",
      department |-> "receptionist", content |-> reply] >>

Without(table, user_id) == [u \in DOMAIN table \ {user_id} |-> table[u]]
With(table, user_id, room_number) ==
  [u \in DOMAIN table \cup {user_id} |-> IF u = user_id THEN room_number ELSE table[u]]
InProgress(user_id) ==
  \E w \in Workers : sessions[w].op # "idle" /\ sessions[w].user_id = user_id

MaxRequests == 4

\* lines 276-290: POST /api/register with an address not yet registered
register_user(user_id) ==
  /\ user_id \notin DOMAIN users
  /\ ~InProgress(user_id)
  /\ users' = With(users, user_id, NoRoom)
  /\ call' = [op |-> "register_user", user_id |-> user_id]
  /\ outcome' = Return(user_id)
  /\ UNCHANGED <<messages, orders, requests, available, last_error, trace, turn, rooms,
                 sessions>>

\* line 141 and the tests of lines 142 and 168: POST /api/chat by a
\* registered user who has no room, the message not about the bill
ChatLoadUser(w, user_id, message, conversation_id) ==
  /\ sessions[w].op = "idle"
  /\ turn < MaxRequests
  /\ user_id \in DOMAIN users
  /\ ~_is_billing_request(message)
  /\ users[user_id] = NoRoom
  /\ sessions' = [sessions EXCEPT ![w] =
       [op |-> "chat", at |-> "find", user_id |-> user_id, message |-> message,
        conversation_id |-> conversation_id, requested_room |-> NoRoom, room |-> Absent]]
  /\ turn' = turn + 1
  /\ UNCHANGED <<messages, orders, requests, available, last_error, call, outcome, trace,
                 users, rooms>>

\* lines 169-189: the request reads the rooms table
ChatFindRoom(w) ==
  /\ sessions[w].op = "chat" /\ sessions[w].at = "find"
  /\ LET requested_room == _extract_requested_room(sessions[w].message)
         asks == _is_room_booking_request(sessions[w].message) \/ requested_room # NoRoom
     IN sessions' = [sessions EXCEPT ![w] =
          [@ EXCEPT !.at = IF asks THEN "book" ELSE "decline",
                    !.requested_room = requested_room,
                    !.room = IF asks THEN FindRoom(rooms, requested_room) ELSE Absent]]
  /\ UNCHANGED <<messages, orders, requests, available, last_error, call, outcome, trace,
                 turn, users, rooms>>

\* lines 190-229: the request marks the room it found, gives it to the user
\* and commits, then stores the two messages.  The update of a users row
\* that is gone fails the commit (StaleDataError) and nothing is changed.
ChatCommit(w) ==
  LET s == sessions[w]
      reply == IF s.at = "decline"
               THEN <<"P","l","e","a","s","e"," ","b","o","o","k"," ","a"," ","r","o","o","m"," ","f","i","r","s","t"," ","s","o"," ","I"," ","c","a","n"," ","a","s","s","i","s","t","."," ","S","a","y"," ","'","b","o","o","k"," ","a"," ","r","o","o","m","'"," ","t","o"," ","g","e","t"," ","s","t","a","r","t","e","d",".">>
               ELSE BookingReply(s.requested_room, s.room)
      books == s.at = "book" /\ IsPresent(s.room)
      stale == books /\ s.user_id \notin DOMAIN users
  IN /\ s.op = "chat" /\ s.at \in {"book", "decline"}
     /\ rooms' = IF books /\ ~stale THEN [rooms EXCEPT ![The(s.room)] = FALSE] ELSE rooms
     /\ users' = IF books /\ ~stale THEN With(users, s.user_id, The(s.room)) ELSE users
     /\ messages' = IF stale THEN messages
                    ELSE messages \o BookingRows(s.message, s.conversation_id, reply)
     /\ call' = [op |-> "chat_booking", user_id |-> s.user_id, message |-> s.message,
                 requested_room |-> s.requested_room, room |-> s.room]
     /\ outcome' = IF stale THEN Raise("StaleDataError")
                   ELSE Return([department |-> "receptionist", reply |-> reply])
     /\ sessions' = [sessions EXCEPT ![w] = Idle]
     /\ UNCHANGED <<orders, requests, available, last_error, trace, turn>>

\* lines 303-305: DELETE /api/users/{user_id} loads the user or answers 404
DeleteLoadUser(w, user_id) ==
  /\ sessions[w].op = "idle"
  /\ turn < MaxRequests
  /\ turn' = turn + 1
  /\ IF user_id \in DOMAIN users
     THEN /\ sessions' = [sessions EXCEPT ![w] =
                [op |-> "delete", at |-> "commit", user_id |-> user_id,
                 room_number |-> users[user_id]]]
          /\ UNCHANGED <<call, outcome>>
     ELSE /\ call' = [op |-> "delete_user", user_id |-> user_id]
          /\ outcome' = Raise("HTTPException 404")
          /\ UNCHANGED sessions
  /\ UNCHANGED <<messages, orders, requests, available, last_error, trace, users, rooms>>

\* lines 306-314: the room of the loaded user is marked available, the
\* orders and requests of that room and the user are deleted, and the
\* request commits
DeleteCommit(w) ==
  LET s == sessions[w]
      held == s.room_number # NoRoom
  IN /\ s.op = "delete" /\ s.at = "commit"
     /\ rooms' = IF held /\ s.room_number \in DOMAIN rooms
                 THEN [rooms EXCEPT ![s.room_number] = TRUE] ELSE rooms
     /\ orders' = IF held THEN SelectSeq(orders, LAMBDA row : row.room_number # s.room_number)
                  ELSE orders
     /\ requests' = IF held
                    THEN SelectSeq(requests, LAMBDA row : row.room_number # s.room_number)
                    ELSE requests
     /\ users' = Without(users, s.user_id)
     /\ call' = [op |-> "delete_user", user_id |-> s.user_id]
     /\ outcome' = Return("deleted")
     /\ sessions' = [sessions EXCEPT ![w] = Idle]
     /\ UNCHANGED <<messages, available, last_error, trace, turn>>


-----------------------------------------------------------------------------
(* Operations called on their own: the gateway client and the two pure     *)
(* decoders.  call holds the operation and its argument, outcome what it   *)
(* returned or raised.                                                     *)

NoCall == [op |-> "none"]
NoTrace == [agents |-> << >>, results |-> << >>, saves |-> << >>, remote |-> 0,
            room |-> NoRoom, intents |-> Absent, served |-> FALSE]

\* an argument waiting to be passed to the operation op
Pending(op, arg) == [op |-> "pending", of |-> op, arg |-> arg]
Applied(op, arg) == [op |-> op, arg |-> arg]

GatewayOperations ==
  {"classify_department", "detect_intents", "extract_order", "extract_room_service"}

\* one operation of the client under test, the remote oracle answering resp
GatewayCall(op, resp) ==
  LET r == CASE op = "classify_department" -> classify_department(available, resp, last_error)
             [] op = "detect_intents" -> detect_intents(available, resp, last_error)
             [] op = "extract_order" -> extract_order(available, resp, last_error)
             [] op = "extract_room_service" -> extract_room_service(available, resp, last_error)
             [] OTHER -> health(available, last_error)
  IN /\ call' = Applied(op, resp)
     /\ outcome' = IF r.raised THEN Raise(r.last_error) ELSE Return(r.value)
     /\ last_error' = r.last_error
     /\ trace' = [NoTrace EXCEPT !.remote = r.remote]
     /\ UNCHANGED <<messages, orders, requests, available, turn, users, rooms, sessions>>

ClassifyDepartment(resp) == GatewayCall("classify_department", resp)
DetectIntents(resp) == GatewayCall("detect_intents", resp)
ExtractOrder(resp) == GatewayCall("extract_order", resp)
ExtractRoomService(resp) == GatewayCall("extract_room_service", resp)
Health == GatewayCall("health", NoRequest)

\* self._coerce_quantity(raw) on the argument drawn
CoerceQuantity ==
  /\ call.op = "pending" /\ call.of = "_coerce_quantity"
  /\ call' = Applied("_coerce_quantity", call.arg)
  /\ outcome' = _coerce_quantity(call.arg)
  /\ UNCHANGED <<messages, orders, requests, available, last_error, trace, turn, users, rooms, sessions>>

\* self._normalize_request_type(request_type) on the argument drawn
NormalizeRequestType ==
  /\ call.op = "pending" /\ call.of = "_normalize_request_type"
  /\ call' = Applied("_normalize_request_type", call.arg)
  /\ outcome' = _normalize_request_type(call.arg)
  /\ UNCHANGED <<messages, orders, requests, available, last_error, trace, turn, users, rooms, sessions>>

\* the analyses of one message given as text, its index being 1
AnalysesOfText(text) ==
  [RestaurantParseOf |-> <<Restaurant_simple_parse(text)>>,
   RoomServiceParseOf |-> <<RoomService_simple_parse(text)>>,
   HeuristicIntentsOf |-> <<HeuristicIntents(text)>>,
   HeuristicDepartmentOf |-> <<HeuristicDepartment(text)>>,
   RoomNumberOf |-> <<_extract_room_number(text)>>,
   ReceptionOf |-> <<_route_reception(lower(text))>>,
   MenuRequestOf |-> <<Contains(lower(text), <<"m","e","n","u">>) \/ Contains(lower(text), <<"o","p","t","i","o","n","s">>)>>]

\* self._detect_intents(message) on the message drawn, by a client that is not bound
DetectIntentsOffline ==
  /\ call.op = "pending" /\ call.of = "_detect_intents"
  /\ ~available
  /\ \E d \in {_detect_intents(AnalysesOfText(call.arg), 1, available, NoRequest)} :
       /\ call' = Applied("_detect_intents", call.arg)
       /\ outcome' = d.res
       /\ trace' = [NoTrace EXCEPT !.remote = d.remote, !.intents = Some(d.res.value)]
  /\ UNCHANGED <<messages, orders, requests, available, last_error, turn, users, rooms, sessions>>

\* self.route_department(message, conversation_id) called on its own, the
\* gateway answering resp; T holds the analyses of the message, conversation_id
\* "" is None
RouteDepartment(T, text, conversation_id, resp, fail) ==
  /\ call.op \in {"none", "chat"}
  /\ \E r \in {route_department(T, 1, conversation_id, Database, available, resp, fail)} :
       /\ call' = [op |-> "route_department", message |-> text,
                   conversation_id |-> conversation_id, label |-> resp, fail |-> fail]
       /\ outcome' = Return(r.department)
       /\ trace' = [NoTrace EXCEPT !.remote = r.remote]
  /\ UNCHANGED <<messages, orders, requests, available, last_error, turn, users, rooms, sessions>>

\* lines 98-99 of handle on the message and room number drawn: the room
\* number the request is handled with
ResolveRoomNumber ==
  /\ call.op = "pending" /\ call.of = "_extract_room_number"
  /\ \E room \in {IF call.arg.room_number = NoRoom
                  THEN _extract_room_number(call.arg.message)
                  ELSE call.arg.room_number} :
       /\ call' = Applied("_extract_room_number", call.arg)
       /\ outcome' = Return(room)
       /\ trace' = [NoTrace EXCEPT !.room = room]
  /\ UNCHANGED <<messages, orders, requests, available, last_error, turn, users, rooms, sessions>>

\* self._simple_parse(message) of the restaurant agent on the argument drawn
SimpleParse ==
  /\ call.op = "pending" /\ call.of = "_simple_parse"
  /\ call' = Applied("_simple_parse", call.arg)
  /\ outcome' = Return(Restaurant_simple_parse(call.arg))
  /\ UNCHANGED <<messages, orders, requests, available, last_error, trace, turn, users, rooms, sessions>>

\* RestaurantAgent.handle(message, None, conversation_id) on the tables as they
\* stand; trace.room is what _fallback_room_number returns on them
RestaurantWithoutRoom(id, conversation_id, resp, fail, suffix) ==
  /\ call.op = "none"
  /\ \E T \in {Analyses} :
     \E o \in {Restaurant_handle(T, id, NoRoom, conversation_id, Database, available, resp,
                                 fail, suffix)} :
       /\ call' = [op |-> "restaurant_handle", message |-> id, room_number |-> NoRoom,
                   conversation_id |-> conversation_id, order |-> resp, fail |-> fail,
                   db |-> Database]
       /\ outcome' = o.res
       /\ orders' = o.orders
       /\ requests' = o.requests
       /\ trace' = [NoTrace EXCEPT
                      !.room = Restaurant_fallback_room_number(Database, conversation_id, fail),
                      !.saves = o.saves, !.remote = o.remote]
  /\ UNCHANGED <<messages, available, last_error, turn, users, rooms, sessions>>

-----------------------------------------------------------------------------
(* The requests and gateway responses the model serves *)

\* the index of a text in Corpus
IdOf(text) == CHOOSE id \in MessageIds : Corpus[id] = text

Rooms == {NoRoom, <<"1","0","4">>}
Suffix == CHOOSE s \in UuidSuffixes : TRUE

\* JSON documents the gateway may return
OrderItem(name, quantity) == JDict(<< <<<<"n","a","m","e">>, JStr(name)>>, <<<<"q","u","a","n","t","i","t","y">>, quantity>> >>)
OrderOf(lines) == JDict(<< <<<<"i","t","e","m","s">>, JList(lines)>> >>)
IntentsOf(restaurant, room_service, receptionist) ==
  JDict(<< <<<<"r","e","s","t","a","u","r","a","n","t">>, JBool(restaurant)>>, <<<<"r","o","o","m","_","s","e","r","v","i","c","e">>, JBool(room_service)>>,
           <<<<"r","e","c","e","p","t","i","o","n","i","s","t">>, JBool(receptionist)>> >>)
RequestOf(request_type) == JDict(<< <<<<"r","e","q","u","e","s","t","_","t","y","p","e">>, request_type>> >>)

IntentResponses ==
  { RemoteRaise("APIConnectionError"), RemoteNone, RemoteText(<<"s","o","r","r","y">>),
    RemoteJson(JList(<<JStr(<<"r","e","s","t","a","u","r","a","n","t">>)>>)), RemoteJson(JDict(<< >>)) }
  \cup { RemoteJson(IntentsOf(a, b, c)) : a \in BOOLEAN, b \in BOOLEAN, c \in BOOLEAN }

LabelResponses ==
  { RemoteRaise("AuthenticationError"), RemoteEmpty, RemoteText(<<"r","e","s","t","a","u","r","a","n","t">>),
    RemoteText(<<" ","R","o","o","m","_","S","e","r","v","i","c","e"," ","\\","n">>), RemoteText(<<"r","e","c","e","p","t","i","o","n","i","s","t",".">>), RemoteText(<<"m","u","l","t","i">>) }

OrderResponses ==
  { RemoteRaise("RateLimitError"), RemoteText(<<"o","o","p","s">>),
    RemoteJson(JDict(<< >>)), RemoteJson(OrderOf(<< >>)),
    RemoteJson(JList(<<JInt(1)>>)), RemoteJson(JStr(<<"p","i","z","z","a">>)),
    RemoteJson(OrderOf(<<OrderItem(<<"C","o","f","f","e","e">>, JInt(2))>>)),
    RemoteJson(OrderOf(<<OrderItem(<<"c","o","f","f","e","e">>, JFloat(5)), OrderItem(<<"B","r","o","w","n","i","e">>, JStr(<<"2","5">>))>>)),
    RemoteJson(OrderOf(<<OrderItem(<<"M","a","r","g","h","e","r","i","t","a"," ","P","i","z","z","a">>, JStr(<<"t","h","r","e","e">>)),
                         JDict(<< <<<<"n","a","m","e">>, JStr(<<"F","r","e","n","c","h"," ","F","r","i","e","s">>)>> >>)>>)),
    RemoteJson(OrderOf(<<OrderItem(<<"L","o","b","s","t","e","r"," ","T","h","e","r","m","i","d","o","r">>, JInt(1)), OrderItem(<<"T","e","a">>, JInt(25))>>)),
    RemoteJson(OrderOf(<<OrderItem(<<"C","o","f","f","e","e">>, JInf)>>)),
    RemoteJson(OrderOf(<<JDict(<< <<<<"q","u","a","n","t","i","t","y">>, JInt(2)>> >>)>>)),
    RemoteJson(OrderOf(<<JStr(<<"p","i","z","z","a">>)>>)),
    RemoteJson(JDict(<< <<<<"i","t","e","m","s">>, JStr(<<"p","i","z","z","a">>)>> >>)) }

RoomServiceResponses ==
  { RemoteRaise("APITimeoutError"), RemoteNone, RemoteJson(JDict(<< >>)),
    RemoteJson(RequestOf(JStr(<<"T","o","w","e","l","s">>))),
    RemoteJson(RequestOf(JList(<<JStr(<<"t","o","w","e","l">>), JStr(<<"x">>)>>))),
    RemoteJson(RequestOf(RequestOf(JStr(<<"t","o","w","e","l">>)))),
    RemoteJson(RequestOf(JStr(<<"m","a","s","s","a","g","e">>))),
    RemoteJson(RequestOf(JInt(5))),
    RemoteJson(JList(<<JStr(<<"t","o","w","e","l","s">>)>>)) }

NoScript == Script(NoRequest, NoRequest, NoRequest, NoRequest)

\* The gateway operations a request consults: detect_intents always,
\* classify_department when no intent bit is set, the extraction of each domain
\* agent that handles the message (the restaurant agent answers a menu request
\* before it extracts).
Consulted(T, id, conversation_id, db, bound, script, fail) ==
  IF ~bound THEN {}
  ELSE LET d == _detect_intents(T, id, bound, script.intents)
       IN IF d.res.raised THEN {"intents"}
          ELSE LET v == d.res.value
                   none == ~v[1] /\ ~v[2] /\ ~v[3]
                   routed == route_department(T, id, conversation_id, db, bound, script.label, fail)
                   restaurant == v[1] \/ (none /\ routed.department = "restaurant")
                   room_service == v[2] \/ (none /\ routed.department = "room_service")
               IN {"intents"}
                  \cup (IF none THEN {"label"} ELSE {})
                  \cup (IF restaurant /\ ~T.MenuRequestOf[id] THEN {"order"} ELSE {})
                  \cup (IF room_service THEN {"room_service"} ELSE {})

\* the responses drawn for an operation: any of its responses when the
\* request consults it, none otherwise
Drawn(responses, consulted) == IF consulted THEN responses ELSE {NoRequest}

\* the first request a fresh deployment serves, the gateway answering anything
FirstChat ==
  /\ call.op = "none"
  /\ \E id \in MessageIds, room_number \in Rooms, fail \in Failures,
        intents \in Drawn(IntentResponses, available),
        label \in LabelResponses \cup {NoRequest} :
       \E T \in {Analyses} :
       \E consulted \in {Consulted(T, id, "c1", Database, available,
                                   Script(intents, label, NoRequest, NoRequest), fail)} :
         /\ (label = NoRequest) = ("label" \notin consulted)
         /\ \E order \in Drawn(OrderResponses, "order" \in consulted),
               room_service \in Drawn(RoomServiceResponses, "room_service" \in consulted) :
              chat(id, room_number, "c1", Script(intents, label, order, room_service), fail,
                   Suffix)

\* a dialogue: the turns of the conversations, the gateway either failing or
\* answering as instructed
MaxTurns == 2

DialogueMessages ==
  { IdOf(<<"2"," ","p","i","z","z","a","s">>), IdOf(<<"r","o","o","m"," ","1","0","4">>), IdOf(<<"2"," ","c","o","f","f","e","e">>), IdOf(<<"n","e","e","d"," ","t","o","w","e","l","s">>),
    IdOf(<<"h","e","l","l","o">>) }
Conversations == {"c1", "c2"}
DialogueFailures == {"none", "commit"}
GatewayDown ==
  Script(RemoteRaise("APIConnectionError"), RemoteRaise("APIConnectionError"),
         RemoteRaise("APIConnectionError"), RemoteRaise("APIConnectionError"))
GatewayPizza ==
  Script(RemoteJson(IntentsOf(TRUE, FALSE, FALSE)), RemoteText(<<"r","e","s","t","a","u","r","a","n","t">>),
         RemoteJson(OrderOf(<<OrderItem(<<"M","a","r","g","h","e","r","i","t","a"," ","P","i","z","z","a">>, JInt(2))>>)),
         RemoteJson(RequestOf(JStr(<<"t","o","w","e","l","s">>))))
DialogueScripts == IF available THEN {GatewayDown, GatewayPizza} ELSE {NoScript}

Turn ==
  /\ turn < MaxTurns
  /\ \E id \in DialogueMessages, room_number \in Rooms, conversation_id \in Conversations,
        script \in DialogueScripts, fail \in DialogueFailures :
       chat(id, room_number, conversation_id, script, fail, Suffix)
-----------------------------------------------------------------------------
(* The arguments the gateway and the two decoders are exercised on *)

\* every response the remote oracle is scripted with
GatewayResponses ==
  IntentResponses \cup LabelResponses \cup OrderResponses \cup RoomServiceResponses

\* str(n) of a natural number
RECURSIVE Digits(_)
Digits(n) == IF n < 10 THEN <<DigitChars[n + 1]>> ELSE Digits(n \div 10) \o <<DigitChars[(n % 10) + 1]>>

MinRawQuantity == 3
MaxRawQuantity == 25

\* raw quantities: integers, digit strings, number words, other strings,
\* floats (in tenths), booleans, null, Infinity, containers
RawQuantities ==
  {JInt(n) : n \in (0 - MinRawQuantity)..MaxRawQuantity}
  \cup {JStr(Digits(n)) : n \in 0..MaxRawQuantity}
  \cup {JStr(explicit_number_words[i]) : i \in 1..Len(explicit_number_words)}
  \cup {JStr(<<" ","7"," ">>), JStr(<<"T","h","r","e","e">>), JStr(<<"-","3">>), JStr(<<"x","2">>), JStr(<<"2",".","5">>), JStr(<<"0","0","7">>),
        JStr(<<"l","o","t","s">>), JStr(<< >>)}
  \cup {JFloat(t) : t \in {0 - 5, 0, 5, 10, 27, 200, 205, 250}}
  \cup {JBool(TRUE), JBool(FALSE), JNull, JInf, JList(<< >>), JDict(<< >>)}

MaxListLen == 2

RequestTypeStrings ==
  {JStr(<<"T","o","w","e","l","s">>), JStr(<<"T","O","W","E","L">>), JStr(<<" ","t","o","w","e","l"," ">>), JStr(<<"t","o","w","e","l","s">>), JStr(<<"m","a","s","s","a","g","e">>),
   JStr(<<"P","i","l","l","o","w","s">>), JStr(<<"b","r","u","s","h">>), JStr(<<"C","l","e","a","n">>), JStr(<<"h","o","u","s","e","k","e","e","p","i","n","g">>),
   JStr(<<"f","r","e","s","h"," ","t","o","w","e","l","s">>), JStr(<< >>)}
RequestTypeScalars ==
  {JNull, JInt(0), JInt(5), JFloat(15), JBool(TRUE), JBool(FALSE)}
RequestTypeElements ==
  {JStr(<<"t","o","w","e","l">>), JStr(<<"x">>), JStr(<< >>), JInt(0), JNull,
   RequestOf(JStr(<<"t","o","w","e","l">>)), JList(<<JStr(<<"t","o","w","e","l">>)>>)}
RequestTypeLists ==
  {JList(s) : s \in UNION {[1..n -> RequestTypeElements] : n \in 0..MaxListLen}}
RequestTypeDicts ==
  {RequestOf(v) : v \in RequestTypeStrings \cup RequestTypeScalars}
  \cup {JDict(<< >>),
        RequestOf(JList(<<JStr(<<"t","o","w","e","l">>)>>)),
        JDict(<< <<<<"a">>, JInt(1)>>, <<<<"b">>, JStr(<<"P","i","l","l","o","w","s">>)>> >>),
        JDict(<< <<<<"r","e","q","u","e","s","t","_","t","y","p","e">>, JInt(5)>>, <<<<"x">>, JStr(<<"t","o","w","e","l">>)>> >>),
        JDict(<< <<<<"r","e","q","u","e","s","t","_","t","y","p","e">>, JStr(<<"m","a","s","s","a","g","e">>)>>, <<<<"x">>, JStr(<<"t","o","w","e","l">>)>> >>),
        JDict(<< <<<<"a">>, JInt(1)>> >>)}
RequestTypes ==
  RequestTypeStrings \cup RequestTypeScalars \cup RequestTypeLists \cup RequestTypeDicts

\* the words longer than three characters of the menu items' names
MenuWords == UNION {NameTokens(lower(MENU[k].name)) : k \in 1..Len(MENU)}
\* messages built around a word: a menu word or another one, alone or in a
\* phrase, in the plural, or as part of a longer word
IntentWords == MenuWords \cup { <<"h","e","l","l","o">>, <<"t","o","w","e","l">>, <<"l","o","b","s","t","e","r">>, <<"s","t","e","a","k">> }
IntentTexts ==
  { p \o w \o s : p \in {<< >>, <<"s","o","m","e"," ">>, <<"x">>},
                  w \in IntentWords,
                  s \in {<< >>, <<"s">>, <<" ","p","l","e","a","s","e">>, <<"e","d">>} }
  \cup { MENU[k].name : k \in 1..Len(MENU) }

\* the messages route_department is called on, and the conversations (none, c1, c2)
RouteTexts ==
  { <<"s","a","l","m","o","n"," ","p","l","e","a","s","e">>, <<"h","e","l","l","o">>, <<"n","e","e","d"," ","t","o","w","e","l","s">>, <<"2"," ","c","o","f","f","e","e">>, <<"t","o","w","e","l","s"," ","a","n","d"," ","c","o","f","f","e","e">>,
    <<"T","o","m","a","t","o"," ","S","o","u","p">>, <<"t","h","e"," ","b","i","l","l">>, <<"a","n"," ","a","m","e","n","i","t","y"," ","k","i","t">> }
RouteConversations == {""} \cup Conversations
RouteFailures == {"none", "history"}
\* the analyses of each of these messages, computed once
RouteAnalysesOf == Tabulated([text \in RouteTexts |-> AnalysesOfText(text)])

\* messages with numbers: a number of one to five digits, after "room" or
\* another word, followed by more text or another number
RoomTexts ==
  { p \o n \o s : p \in {<< >>, <<"r","o","o","m"," ">>, <<"r","o","o","m">>, <<"R","o","o","m"," "," ">>, <<"r","o","o","m","s"," ">>, <<"b","e","d","r","o","o","m"," ">>, <<"t","o"," ">>},
                  n \in { <<"7">>, <<"1","2">>, <<"1","0","4">>, <<"1","2","0","4">>, <<"1","2","3","4","5">> },
                  s \in {<< >>, <<" ","p","l","e","a","s","e">>, <<"b">>, <<" ","a","n","d"," ","2","0","5">>, <<","," ","r","o","o","m"," ","9">>} }
RoomArguments == {[message |-> text, room_number |-> room] : text \in RoomTexts, room \in Rooms}

\* restaurant messages: an item mentioned by its name, by one of its words or
\* by a longer word, with or without a quantity before it and after it
ParseQuantities == {<< >>, <<"2"," ">>, <<"t","w","o"," ">>, <<"3"," ","x"," ">>, <<"2","5"," ">>}
ParseMentions ==
  { <<"c","o","f","f","e","e">>, <<"T","o","m","a","t","o"," ","S","o","u","p">>, <<"s","o","u","p">>, <<"c","a","k","e">>, <<"c","l","u","b">>, <<"p","i","z","z","a">>, <<"p","i","z","z","a","s">>, <<"f","r","i","e","s">>,
    <<"f","r","e","n","c","h"," ","f","r","i","e","s">>, <<"s","a","l","m","o","n">>, <<"f","r","e","s","h"," ","j","u","i","c","e">>, <<"s","a","n","d","w","i","c","h","e","s">>, <<"h","e","l","l","o">>, <<"s","o","u","p","y">>,
    <<"c","h","o","c","o","l","a","t","e","s">> }
ParseSuffixes == {<< >>, <<" ","2">>, <<" ","t","h","r","e","e">>, <<" ","a","n","d"," ","a"," ","c","o","f","f","e","e">>, <<" ","a","n","d"," ","t","w","o"," ","s","a","l","a","d">>}
ParseTexts ==
  { q \o m \o s : q \in ParseQuantities, m \in ParseMentions, s \in ParseSuffixes }

\* the tables a deployment may find: up to MaxRows orders and room-service
\* requests of the two conversations, oldest first, for the rooms 104 and 205
MaxRows == 2
StoredRooms == { <<"1","0","4">>, <<"2","0","5">> }
StoredLines == PricedItems(<<OrderItem(<<"C","o","f","f","e","e">>, JInt(1))>>).value
StoredOrder(n, conversation_id, room) ==
  [id |-> n, conversation_id |-> conversation_id, room_number |-> room,
   items |-> StoredLines, total_amount |-> TotalOf(StoredLines), status |-> "Pending",
   display_id |-> Absent]
StoredRequest(n, conversation_id, room) ==
  [id |-> n, conversation_id |-> conversation_id, room_number |-> room,
   request_type |-> <<"t","o","w","e","l","s">>, status |-> "Pending"]
RowKeys == Conversations \X StoredRooms
StoredOrders ==
  UNION { {[n \in 1..len |-> StoredOrder(n, k[n][1], k[n][2])] : k \in [1..len -> RowKeys]} :
          len \in 0..MaxRows }
StoredRequests ==
  UNION { {[n \in 1..len |-> StoredRequest(n, k[n][1], k[n][2])] : k \in [1..len -> RowKeys]} :
          len \in 0..MaxRows }
\* the messages the restaurant agent is called on without a room number
NoRoomMessages == { IdOf(<<"2"," ","c","o","f","f","e","e">>), IdOf(<<"2"," ","p","i","z","z","a","s">>), IdOf(<<"h","e","l","l","o">>) }
NoRoomFailures == {"none", "lookup"}
NoRoomResponses == { RemoteRaise("RateLimitError"),
                     RemoteJson(OrderOf(<<OrderItem(<<"C","o","f","f","e","e">>, JInt(2))>>)) }

\* dialogues with the room-service agent: the gateway, when bound, names the
\* room-service intent and answers the extraction with any of its responses
ServiceMessages ==
  { IdOf(<<"n","e","e","d"," ","t","o","w","e","l","s">>), IdOf(<<"r","o","o","m"," ","1","0","4">>), IdOf(<<"h","e","l","l","o">>), IdOf(<<"E","x","t","r","a"," ","P","i","l","l","o","w","s"," ","p","l","e","a","s","e">>) }
ServiceFailures == {"none", "history"}
ServiceScripts ==
  IF available
  THEN {Script(RemoteJson(IntentsOf(FALSE, TRUE, FALSE)), NoRequest, NoRequest, resp) :
          resp \in RoomServiceResponses}
  ELSE {NoScript}

\* the conversations a deployment has had: requests without a room number,
\* served with the gateway unbound, each leaving its two message rows.  An
\* earlier part, then up to MaxFillers greetings in c1, then perhaps an order
\* stated in c2
MaxFillers == 5
Said(id, conversation_id) == [id |-> id, conversation_id |-> conversation_id]
EarlierTurns ==
  { << >>,
    <<Said(IdOf(<<"2"," ","c","o","f","f","e","e">>), "c1")>>,
    <<Said(IdOf(<<"n","e","e","d"," ","t","o","w","e","l","s">>), "c1")>>,
    <<Said(IdOf(<<"p","i","z","z","a"," ","a","n","d"," ","f","r","i","e","s">>), "c1")>>,
    <<Said(IdOf(<<"2"," ","c","o","f","f","e","e">>), "c1"), Said(IdOf(<<"2"," ","p","i","z","z","a","s">>), "c1")>>,
    <<Said(IdOf(<<"n","e","e","d"," ","t","o","w","e","l","s">>), "c1"), Said(IdOf(<<"E","x","t","r","a"," ","P","i","l","l","o","w","s"," ","p","l","e","a","s","e">>), "c1")>>,
    <<Said(IdOf(<<"g","e","t"," ","m","e"," ","c","o","f","f","e","e"," ","a","n","d"," ","f","r","e","s","h"," ","t","o","w","e","l","s">>), "c1")>> }
LaterTurns == { << >>, <<Said(IdOf(<<"2"," ","p","i","z","z","a","s">>), "c2")>> }
PastTurns ==
  { e \o [k \in 1..n |-> Said(IdOf(<<"h","e","l","l","o">>), "c1")] \o l :
      e \in EarlierTurns, n \in 0..MaxFillers, l \in LaterTurns }
RECURSIVE Replayed(_, _, _)
Replayed(T, db, turns) ==
  IF Len(turns) = 0 THEN db
  ELSE CHOOSE later \in
         { Replayed(T, served, Tail(turns)) :
             served \in {ChatEffect(T, db, turns[1].id, NoRoom, turns[1].conversation_id,
                                    FALSE, NoScript, "none", Suffix).db} } : TRUE
Histories ==
  {Replayed(Analyses, [messages |-> << >>, orders |-> << >>, requests |-> << >>], turns).messages :
     turns \in PastTurns}
\* the requests that follow: the gateway, when bound, names one domain agent
\* and extracts nothing or a payload
RecoveryMessages == { IdOf(<<"r","o","o","m"," ","1","0","4">>), IdOf(<<"h","e","l","l","o">>), IdOf(<<"n","e","e","d"," ","t","o","w","e","l","s">>) }
RecoveryFailures == {"none", "history"}
RecoveryScripts ==
  IF available
  THEN {Script(RemoteJson(IntentsOf(TRUE, FALSE, FALSE)), NoRequest, resp, NoRequest) :
          resp \in {RemoteRaise("RateLimitError"),
                    RemoteJson(OrderOf(<<OrderItem(<<"C","o","f","f","e","e">>, JInt(2))>>))}}
       \cup
       {Script(RemoteJson(IntentsOf(FALSE, TRUE, FALSE)), NoRequest, NoRequest, resp) :
          resp \in {RemoteRaise("APITimeoutError"), RemoteJson(RequestOf(JStr(<<"P","i","l","l","o","w","s">>)))}}
  ELSE {NoScript}

\* the requests that precede a routing decision: one that names two
\* departments among them
EarlierMessages ==
  { IdOf(<<"g","e","t"," ","m","e"," ","c","o","f","f","e","e"," ","a","n","d"," ","f","r","e","s","h"," ","t","o","w","e","l","s">>), IdOf(<<"n","e","e","d"," ","t","o","w","e","l","s">>), IdOf(<<"h","e","l","l","o">>) }
-----------------------------------------------------------------------------
(* Properties *)

Served == call.op = "chat"
TextOf(id) == lower(Corpus[id])

\* the agent calls of the request, as <<agent, what its handle yielded>>
AgentCalls == {<<trace.agents[k], trace.results[k]>> : k \in 1..Len(trace.agents)}

\* C1: AgentOrchestrator.handle never propagates a fault: whatever the
\* message, room number, gateway outcome and collaborator failure, on the
\* single-intent and on the multi-intent path, it returns an AgentResult.
C1_HandleAlwaysReturns == Served => ~outcome.raised

\* the remote responses on which an operation's try block raises
C2_RemoteFails(op, resp) ==
  \/ resp.kind \in {"raise", "empty", "none"}
  \/ resp.kind = "text" /\ op # "classify_department"
C2_Errors ==
  {"IndexError", "TypeError", "JSONDecodeError", "AttributeError"}

\* C2: no gateway operation raises; a failure of the remote call or of the
\* parse is recorded in last_error and the operation returns None; without a
\* bound client the four extraction/classification operations return None
\* and make no remote call.
C2_GatewayNeverRaises ==
  call.op \in GatewayOperations \cup {"health"} =>
    /\ ~outcome.raised
    /\ call.op = "health" =>
         outcome.value = [available |-> available, last_error |-> last_error]
    /\ (call.op # "health" /\ ~available) =>
         /\ outcome.value = JNull
         /\ trace.remote = 0
         /\ last_error = NotInitialized
    /\ (call.op # "health" /\ available /\ C2_RemoteFails(call.op, call.arg)) =>
         /\ outcome.value = JNull
         /\ trace.remote = 1
         /\ IF call.arg.kind = "raise" THEN last_error = call.arg.error
            ELSE last_error \in C2_Errors

\* C2 happens: extract_order on a bound client whose remote call raises
\* returns None with the error recorded
C2_FailureRecorded ==
  /\ call.op = "extract_order" /\ available
  /\ call.arg = RemoteRaise("RateLimitError")
  /\ outcome = Return(JNull) /\ last_error = "RateLimitError"

C3_InRange(lines) == \A i \in 1..Len(lines) : lines[i].quantity \in 1..20

\* C3: every item line of every persisted order has a quantity in 1..20,
\* whatever raw quantity was supplied.  The lines are those _save_order
\* prices and serialises into items_json, and those of the rows stored.
C3_QuantitiesInRange ==
  Served =>
    /\ \A k \in 1..Len(trace.saves) : C3_InRange(trace.saves[k])
    /\ \A k \in 1..Len(orders) : C3_InRange(orders[k].items)

\* the raw quantities that denote a value: numbers, digit strings, the
\* number words one to ten
C4_Denotes(raw) ==
  \/ raw.t = "int"
  \/ raw.t = "float" /\ raw.v % 10 = 0
  \/ raw.t = "str" /\ isdigit(raw.v)
  \/ raw.t = "str" /\ \E i \in 1..10 : explicit_number_words[i] = raw.v
C4_Value(raw) ==
  CASE raw.t = "int" -> raw.v
    [] raw.t = "float" -> raw.v \div 10
    [] isdigit(raw.v) -> int(raw.v)
    [] OTHER -> CHOOSE i \in 1..10 : explicit_number_words[i] = raw.v
C4_Invalid(raw) == raw.t \in {"null", "list", "dict"} \/ raw = JStr(<<"l","o","t","s">>) \/ raw = JStr(<< >>)
\* the reference function of the claim
C4_Reference(raw) ==
  IF C4_Invalid(raw) \/ C4_Value(raw) <= 0 THEN 1
  ELSE IF C4_Value(raw) > 20 THEN 20
  ELSE C4_Value(raw)

\* C4: _coerce_quantity equals the reference function: invalid, zero and
\* negative inputs give 1, a value above 20 gives 20 whether it is a number
\* or a digit string, a value in 1..20 given as a number, a digit string or
\* a number word gives that value.
C4_CoercionIsReference ==
  (call.op = "_coerce_quantity" /\ (C4_Denotes(call.arg) \/ C4_Invalid(call.arg))) =>
    outcome = Return(C4_Reference(call.arg))

RECURSIVE C5_Sum(_)
C5_Sum(lines) ==
  IF Len(lines) = 0 THEN 0
  ELSE lines[1].price * lines[1].quantity + C5_Sum(Tail(lines))
C5_Known(name) == \E k \in 1..Len(FALLBACK_MENU) : lower(FALLBACK_MENU[k].name) = lower(name)

\* C5: total_amount of a persisted order is the sum of price x quantity over
\* its lines; an item whose name the menu does not know is priced 0 and the
\* order is persisted all the same.  Every order _save_order has priced
\* while no collaborator fails is therefore a stored row with that total.
C5_TotalIsSum ==
  Served =>
    /\ \A k \in 1..Len(orders) : orders[k].total_amount = C5_Sum(orders[k].items)
    /\ call.fail = "none" =>
         \A k \in 1..Len(trace.saves) :
           /\ \A i \in 1..Len(trace.saves[k]) :
                ~C5_Known(trace.saves[k][i].name) => trace.saves[k][i].price = 0
           /\ \E j \in 1..Len(orders) :
                /\ orders[j].items = trace.saves[k]
                /\ orders[j].total_amount = C5_Sum(trace.saves[k])

C6_HasRoomServiceKeyword(text) == ContainsAny(text, intent_room_service_keywords)
C6_HasRestaurantKeyword(text) ==
  \/ ContainsAny(text, intent_restaurant_keywords)
  \/ ContainsAny(text, route_restaurant_keywords)
C6_HasMenuToken(text) ==
  \E k \in 1..Len(FALLBACK_MENU) :
    \/ Contains(text, lower(FALLBACK_MENU[k].name))
    \/ \E token \in NameTokens(lower(FALLBACK_MENU[k].name)) : SearchWord(text, token)
C6_HasReceptionistKeyword(text) == ContainsAny(text, intent_receptionist_keywords)
\* the messages with a room-service keyword, no restaurant keyword, no menu token
C6_RoomServiceOnly ==
  {id \in MessageIds :
     /\ C6_HasRoomServiceKeyword(TextOf(id))
     /\ ~C6_HasRestaurantKeyword(TextOf(id))
     /\ ~C6_HasMenuToken(TextOf(id))}
\* those of them without a receptionist keyword
C6_NoOtherKeyword == {id \in C6_RoomServiceOnly : ~C6_HasReceptionistKeyword(TextOf(id))}
\* handle calls the room-service agent and no other; what it returns is of
\* department room_service
C6_ToRoomService ==
  /\ trace.agents = <<"room_service">>
  /\ ~outcome.raised => outcome.value.department = "room_service"

\* C6 as stated: with the gateway unavailable, every message holding a
\* room-service keyword and neither a restaurant keyword nor a menu-item
\* token is routed by handle to the room-service agent (department
\* room_service, neither multi nor receptionist).
C6_RoomServiceOnlyAsStated ==
  (Served /\ ~available /\ call.message \in C6_RoomServiceOnly) => C6_ToRoomService

\* C6 amended: the same of the messages that hold no receptionist keyword
\* (check-in, check-out, gym, spa, pool, availability) either.
C6_RoomServiceRouting ==
  (Served /\ ~available /\ call.message \in C6_NoOtherKeyword) => C6_ToRoomService

\* C6 happens: "need towels" without a gateway is logged by the room-service agent
C6_TowelsLogged ==
  /\ Served /\ ~available
  /\ call.message = IdOf(<<"n","e","e","d"," ","t","o","w","e","l","s">>) /\ call.message \in C6_NoOtherKeyword
  /\ ~outcome.raised /\ outcome.value.department = "room_service"
  /\ Len(requests) = 1 /\ requests[1].request_type = <<"t","o","w","e","l","s">>

\* C7: "get me coffee and fresh towels" with the restaurant and room_service
\* intents both true and a room number known yields department multi, the
\* restaurant agent's line before the room-service agent's line, and both
\* the order and the room-service payload.
C7_CoffeeAndTowels ==
  (/\ Served /\ call.message = IdOf(<<"g","e","t"," ","m","e"," ","c","o","f","f","e","e"," ","a","n","d"," ","f","r","e","s","h"," ","t","o","w","e","l","s">>)
   /\ trace.room # NoRoom
   /\ IsPresent(trace.intents) /\ The(trace.intents)[1] /\ The(trace.intents)[2]
   /\ ~The(trace.intents)[3])
  => /\ ~outcome.raised
     /\ outcome.value.department = "multi"
     /\ Len(outcome.value.reply) = 2
     /\ outcome.value.reply[1].kind \in {"order_placed", "confirm_quantities", "ask_items",
                                         "ask_room", "menu"}
     /\ outcome.value.reply[2].kind \in {"request_logged", "confirm_room",
                                         "room_service_capabilities"}
     /\ IsPresent(outcome.value.order)
     /\ IsPresent(outcome.value.room_service_request)

\* the menu items heuristic parsing finds in a message
C8_Candidates(id) ==
  {k \in 1..Len(FALLBACK_MENU) : _matches_item(TextOf(id), FALLBACK_MENU[k].name)}
\* no digit 1-20 and no number word one-ten
C8_NoQuantitySignal(text) ==
  /\ ~ContainsAny(text, explicit_number_words)
  /\ \A r \in DigitRuns(text) : int(SubSeq(text, r[1], r[2])) \notin 1..20
C8_Gated ==
  {id \in MessageIds : Cardinality(C8_Candidates(id)) > 1 /\ C8_NoQuantitySignal(TextOf(id))}
C8_AsksMenu(id) == Contains(TextOf(id), <<"m","e","n","u">>) \/ Contains(TextOf(id), <<"o","p","t","i","o","n","s">>)
C8_Heuristic == {id \in C8_Gated : ~C8_AsksMenu(id)}
\* the gateway hands the agent no item list: extract_order returns None, a
\* falsy document, or an object whose items are missing or empty
C8_NoGatewayItems ==
  \/ ~available
  \/ call.script.order.kind \in {"raise", "empty", "none", "text"}
  \/ /\ call.script.order.kind = "json"
     /\ \/ ~Truthy(call.script.order.content)
        \/ /\ call.script.order.content.t = "dict"
           /\ ~Truthy(DictGet(call.script.order.content, <<"i","t","e","m","s">>))
\* the reply that lists every candidate once, as 1x, and no order
C8_ConfirmationReply(res, id) ==
  /\ ~res.raised
  /\ res.value.department = "restaurant"
  /\ IsAbsent(res.value.order)
  /\ Len(res.value.reply) = 1
  /\ res.value.reply[1].kind = "confirm_quantities"
  /\ LET names == res.value.reply[1].args
     IN /\ Len(names) = Cardinality(C8_Candidates(id))
        /\ \A k \in C8_Candidates(id) : \E i \in 1..Len(names) : names[i] = FALLBACK_MENU[k].name
C8_Asked(id) ==
  /\ \A c \in AgentCalls : c[1] = "restaurant" => C8_ConfirmationReply(c[2], id)
  /\ trace.saves = << >>
  /\ orders = << >>
C8_RestaurantCalled == \E c \in AgentCalls : c[1] = "restaurant"

\* C8 as stated: whenever heuristic parsing of the message yields more than
\* one distinct menu item and the message holds no digit 1-20 and no number
\* word one-ten, RestaurantAgent.handle returns the reply that lists each
\* candidate at quantity 1 and asks for confirmation, and no order is
\* persisted, with or without a room number.
C8_GatingAsStated ==
  (Served /\ call.message \in C8_Gated /\ C8_RestaurantCalled) => C8_Asked(call.message)

\* C8 amended: the same when the message asks for no menu ("menu",
\* "options") and the gateway hands the agent no item list, so that the
\* order the agent works with is the heuristic parse.
C8_Gating ==
  (Served /\ call.message \in C8_Heuristic /\ C8_RestaurantCalled /\ C8_NoGatewayItems)
    => C8_Asked(call.message)

\* C8 happens: "pizza and fries" for room 104 is answered by the request to
\* confirm 1x Margherita Pizza, 1x French Fries
C8_PizzaAndFriesAsked ==
  /\ Served /\ call.message = IdOf(<<"p","i","z","z","a"," ","a","n","d"," ","f","r","i","e","s">>) /\ call.message \in C8_Heuristic
  /\ call.room_number = <<"1","0","4">>
  /\ trace.agents = <<"restaurant">>
  /\ C8_NoGatewayItems
  /\ ~outcome.raised
  /\ outcome.value.reply =
       Line("confirm_quantities", <<<<"M","a","r","g","h","e","r","i","t","a"," ","P","i","z","z","a">>, <<"F","r","e","n","c","h"," ","F","r","i","e","s">>>>)
  /\ orders = << >>

C9_UserRows(conversation_id) ==
  SelectSeq(messages, LAMBDA r : r.conversation_id = conversation_id /\ r.sender = "user")
C9_PizzaOrder(o, conversation_id) ==
  /\ o.conversation_id = conversation_id
  /\ o.room_number = <<"1","0","4">>
  /\ Len(o.items) = 1
  /\ o.items[1].name = <<"M","a","r","g","h","e","r","i","t","a"," ","P","i","z","z","a">>
  /\ o.items[1].quantity = 2

\* C9: history recovery across turns.  In a conversation whose first user
\* message is "2 pizzas", handling "room 104" as the second message persists
\* an order of one line, the pizza at quantity 2, for room 104, also with the
\* gateway unavailable.
C9_RecoversPizzas ==
  (/\ Served /\ turn = 2 /\ call.fail = "none"
   /\ call.message = IdOf(<<"r","o","o","m"," ","1","0","4">>)
   /\ Len(C9_UserRows(call.conversation_id)) >= 1
   /\ C9_UserRows(call.conversation_id)[1].content = IdOf(<<"2"," ","p","i","z","z","a","s">>))
  => \E k \in 1..Len(orders) : C9_PizzaOrder(orders[k], call.conversation_id)

\* the canonical request types
C10_Canonical ==
  { <<"b","l","a","n","k","e","t">>, <<"p","i","l","l","o","w">>, <<"t","o","i","l","e","t","r","i","e","s">>, <<"t","o","o","t","h","p","a","s","t","e">>, <<"t","o","o","t","h","b","r","u","s","h">>, <<"l","a","u","n","d","r","y">>,
    <<"c","l","e","a","n","i","n","g">>, <<"t","o","w","e","l","s">> }
\* a string is stripped and matched case-insensitively
C10_OfString(s) ==
  LET hits == {i \in 1..Len(request_type_mapping) :
                 request_type_mapping[i][1] = lower(strip(s))}
  IN IF hits = {} THEN Absent ELSE Some(request_type_mapping[CHOOSE i \in hits : TRUE][2])
\* a mapping contributes its request_type if a string, else its first string value
C10_OfDict(d) ==
  LET strings == {i \in 1..Len(d.v) : d.v[i][2].t = "str"}
  IN IF DictGet(d, <<"r","e","q","u","e","s","t","_","t","y","p","e">>).t = "str" THEN C10_OfString(DictGet(d, <<"r","e","q","u","e","s","t","_","t","y","p","e">>).v)
     ELSE IF strings = {} THEN Absent
     ELSE C10_OfString(d.v[Min(strings)][2].v)
C10_OfElement(x) ==
  CASE x.t = "str" -> C10_OfString(x.v)
    [] x.t = "dict" -> C10_OfDict(x)
    [] OTHER -> Absent
\* a sequence contributes its first truthy element
C10_Decoded(rt) ==
  CASE rt.t = "list" ->
         LET truthy == {i \in 1..Len(rt.v) : Truthy(rt.v[i])}
         IN IF truthy = {} THEN Absent ELSE C10_OfElement(rt.v[Min(truthy)])
    [] OTHER -> C10_OfElement(rt)
C10_Towels ==
  {JStr(<<"T","o","w","e","l","s">>), JStr(<<"T","O","W","E","L">>), JList(<<JStr(<<"t","o","w","e","l">>), JStr(<<"x">>)>>),
   RequestOf(JStr(<<"t","o","w","e","l">>))}

\* C10: _normalize_request_type decodes every shape without raising: a string
\* is matched case-insensitively, a list contributes its first truthy
\* element, a dict its request_type field if a string, else its first string
\* value; "Towels", "TOWEL", ["towel","x"] and {"request_type":"towel"} give
\* "towels"; an unrecognized value or shape gives None.
C10_NormalizationDecodes ==
  call.op = "_normalize_request_type" =>
    /\ ~outcome.raised
    /\ outcome.value \in {Absent} \cup {Some(c) : c \in C10_Canonical}
    /\ outcome.value = C10_Decoded(call.arg)
    /\ call.arg \in C10_Towels => outcome.value = Some(<<"t","o","w","e","l","s">>)

\* C10 happens: ["towel", "x"] normalizes to "towels"
C10_ListOfTowel ==
  /\ call.op = "_normalize_request_type"
  /\ call.arg = JList(<<JStr(<<"t","o","w","e","l">>), JStr(<<"x">>)>>)
  /\ outcome = Return(Some(<<"t","o","w","e","l","s">>))

\* the number of intent bits set in a vector
BitsSet(v) == Cardinality({k \in 1..3 : v[k]})

\* the payload slots a department may fill
C11_Slots(r) ==
  CASE r.department = "restaurant" -> IsAbsent(r.room_service_request)
    [] r.department = "room_service" -> IsAbsent(r.order)
    [] r.department = "receptionist" -> IsAbsent(r.order) /\ IsAbsent(r.room_service_request)
    [] r.department = "multi" -> TRUE
    [] OTHER -> FALSE
C11_MultiPath == IsPresent(trace.intents) /\ BitsSet(The(trace.intents)) > 1

\* C11: every AgentResult is well formed.  A result returned by a domain
\* agent has that agent's department, never multi; a restaurant result has
\* no room-service payload, a room_service result no order payload, a
\* receptionist result neither; the result of handle has department multi
\* exactly on the multi-intent path, and only a multi result may carry both
\* payloads.
C11_ResultsWellFormed ==
  Served =>
    /\ \A c \in AgentCalls :
         ~c[2].raised => (c[2].value.department = c[1] /\ C11_Slots(c[2].value))
    /\ ~outcome.raised =>
         /\ C11_Slots(outcome.value)
         /\ (outcome.value.department = "multi") = C11_MultiPath
         /\ (IsPresent(outcome.value.order) /\ IsPresent(outcome.value.room_service_request))
              => outcome.value.department = "multi"

\* C11 happens: a multi result that carries the room-service payload, built
\* from a restaurant result and a room_service result
C11_MultiCarriesRequest ==
  /\ Served /\ ~outcome.raised
  /\ trace.agents = <<"restaurant", "room_service">>
  /\ \A c \in AgentCalls : ~c[2].raised
  /\ outcome.value.department = "multi"
  /\ IsPresent(outcome.value.room_service_request)
  /\ IsAbsent(outcome.value.order)

\* C12: whatever the message and whatever detect_intents yields (nothing, or
\* any three booleans, all false included), the intent vector handle routes
\* on has a bit set: receptionist is set when the other two are not.
C12_SomeIntentSet ==
  (Served /\ IsPresent(trace.intents)) =>
    /\ BitsSet(The(trace.intents)) >= 1
    /\ (~The(trace.intents)[1] /\ ~The(trace.intents)[2]) => The(trace.intents)[3]

\* the results of the agent calls that returned, in order of invocation
C13_Returned == SelectSeq(trace.results, LAMBDA r : ~r.raised)
RECURSIVE C13_Joined(_)
C13_Joined(results) ==
  IF Len(results) = 0 THEN << >> ELSE results[1].value.reply \o C13_Joined(Tail(results))
\* the first payload present among the results that returned
C13_FirstOrder ==
  LET hits == {k \in 1..Len(C13_Returned) : IsPresent(C13_Returned[k].value.order)}
  IN IF hits = {} THEN Absent ELSE C13_Returned[Min(hits)].value.order
C13_FirstRequest ==
  LET hits == {k \in 1..Len(C13_Returned) : IsPresent(C13_Returned[k].value.room_service_request)}
  IN IF hits = {} THEN Absent ELSE C13_Returned[Min(hits)].value.room_service_request
\* the agents of the bits set, restaurant first, receptionist last
C13_Relevant(v) ==
  SelectSeq(<<"restaurant", "room_service", "receptionist">>,
            LAMBDA a : \/ a = "restaurant" /\ v[1]
                       \/ a = "room_service" /\ v[2]
                       \/ a = "receptionist" /\ v[3])

\* C13: in multi-intent combination an agent whose handle raises is skipped.
\* Every relevant agent is invoked, in order, whether or not an earlier one
\* raised; the call returns a result with department multi whose reply joins
\* the replies of the agents that returned and whose payloads are theirs; if
\* every agent raised the reply is the generic acknowledgement.
C13_FailureIsolated ==
  (Served /\ C11_MultiPath) =>
    /\ trace.agents = C13_Relevant(The(trace.intents))
    /\ ~outcome.raised
    /\ outcome.value.department = "multi"
    /\ outcome.value.reply =
         (IF Len(C13_Returned) = 0 THEN Line("request_received", << >>)
          ELSE C13_Joined(C13_Returned))
    /\ outcome.value.order = C13_FirstOrder
    /\ outcome.value.room_service_request = C13_FirstRequest

\* C13 happens: the restaurant agent raises and the room-service agent, run
\* after it, logs the towels, which the multi result carries
C13_RestaurantSkipped ==
  /\ Served /\ C11_MultiPath
  /\ trace.agents = <<"restaurant", "room_service">>
  /\ trace.results[1].raised
  /\ ~trace.results[2].raised
  /\ ~outcome.raised
  /\ outcome.value.department = "multi"
  /\ outcome.value.reply = trace.results[2].value.reply
  /\ IsPresent(outcome.value.room_service_request)
  /\ Len(requests) = 1

\* the messages that state an order, and those that state a room-service
\* request, whatever the gateway scripts of the dialogues answer
C14_OrderMessages == {IdOf(<<"2"," ","c","o","f","f","e","e">>), IdOf(<<"2"," ","p","i","z","z","a","s">>)}
C14_RequestMessages == {IdOf(<<"n","e","e","d"," ","t","o","w","e","l","s">>)}
\* this request repeats the previous one: same text, room number and
\* conversation, the room known and no collaborator failing
C14_Repeated ==
  /\ call.op = "chat" /\ call'.op = "chat"
  /\ turn' = turn + 1
  /\ call'.message = call.message
  /\ call'.room_number = call.room_number
  /\ call'.conversation_id = call.conversation_id
  /\ call'.script = call.script
  /\ call.room_number # NoRoom
  /\ call.fail = "none" /\ call'.fail = "none"
\* two rows of the table, with distinct ids, are records of this request
C14_TwoRecords(table, c) ==
  \E i, j \in 1..Len(table) :
    /\ i # j /\ table[i].id # table[j].id
    /\ table[i].conversation_id = c.conversation_id /\ table[i].room_number = c.room_number
    /\ table[j].conversation_id = c.conversation_id /\ table[j].room_number = c.room_number

\* C14: no idempotence.  Handling the same persistable message twice (same
\* text, room number and conversation id) leaves two distinct persisted
\* records, of an order as of a room-service request: the second call adds
\* its own record, it is neither rejected nor merged with the first.
C14_RepeatDuplicates ==
  [][C14_Repeated =>
       /\ call.message \in C14_OrderMessages =>
            (Len(orders') = Len(orders) + 1 /\ C14_TwoRecords(orders', call))
       /\ (call.message \in C14_RequestMessages /\ call.script # GatewayPizza) =>
            (Len(requests') = Len(requests) + 1 /\ C14_TwoRecords(requests', call))]_vars

\* token occurs in text as a whole word, a trailing "s" tolerated
C15_WholeWord(text, token) ==
  \E i \in 1..Len(text) :
    /\ StartsAt(text, token, i)
    /\ (i = 1 \/ ~IsWordChar(text[i - 1]))
    /\ LET e == i + Len(token) - 1
           ends(q) == q = Len(text) \/ ~IsWordChar(text[q + 1])
       IN ends(e) \/ (e < Len(text) /\ text[e + 1] = "s" /\ ends(e + 1))
\* the lowercase message names the restaurant: a whole word of a menu
\* item's name, a full menu-item name, or a restaurant keyword
C15_NamesRestaurant(text) ==
  \/ \E w \in MenuWords : C15_WholeWord(text, w)
  \/ \E k \in 1..Len(MENU) : Contains(text, lower(MENU[k].name))
  \/ ContainsAny(text, intent_restaurant_keywords)

\* C15: with the gateway unavailable the restaurant bit of the heuristic
\* vector is set for every message that contains, as a whole word (a trailing
\* "s" tolerated), a word longer than three characters of a menu item's name
\* (salmon, tomato, chocolate, ...), a full menu-item name, or a restaurant
\* keyword.
C15_MenuWordSetsRestaurant ==
  (call.op = "_detect_intents" /\ ~available /\ C15_NamesRestaurant(lower(call.arg)))
    => (~outcome.raised /\ outcome.value[1])

\* conversation_messages as the request found it
C16_Before == IF trace.served THEN SubSeq(messages, 1, Len(messages) - 2) ELSE messages
\* the department of the most recent agent-authored message of the conversation
C16_AgentRows(conversation_id) ==
  SelectSeq(C16_Before, LAMBDA r : r.conversation_id = conversation_id /\ r.sender = "agent")
C16_History(conversation_id) ==
  LET rows == C16_AgentRows(conversation_id)
  IN IF Len(rows) = 0 THEN Absent ELSE Some(rows[Len(rows)].department)
\* the message matches no restaurant, room-service or FAQ heuristic
C16_Plain(text) ==
  /\ ~C15_NamesRestaurant(text)
  /\ ~ContainsAny(text, route_restaurant_keywords)
  /\ ~ContainsAny(text, intent_room_service_keywords)
  /\ ~ContainsAny(text, route_room_service_keywords)
  /\ ~ContainsAny(text, intent_receptionist_keywords)
\* the gateway classifies nothing: it is not bound, or its calls all fail
C16_NoClassification == ~available \/ call.script = GatewayDown

\* C16: multi-turn continuity.  A message that matches no heuristic, with
\* no classification from the gateway, in a conversation whose most recent
\* agent-authored message has department D, is delegated to the agent of D;
\* it goes to the receptionist only when the conversation has no such
\* history.
C16_ContinuesDepartment ==
  (Served /\ C16_Plain(TextOf(call.message)) /\ C16_NoClassification
     /\ call.conversation_id # "")
  => trace.agents =
       (IF IsPresent(C16_History(call.conversation_id))
        THEN <<The(C16_History(call.conversation_id))>>
        ELSE <<"receptionist">>)

\* the label classify_department hands route_department, if a department name
C17_Label ==
  LET label == classify_department(available, call.label, "").value
  IN IF label.t = "str" /\ label.v \in {DepartmentText(d) : d \in Departments}
     THEN Some(CHOOSE d \in Departments : DepartmentText(d) = label.v)
     ELSE Absent
\* the department of the newest agent-authored message of the conversation
\* that the lookup finds
C17_History ==
  LET rows == SelectSeq(messages, LAMBDA r : r.conversation_id = call.conversation_id
                                             /\ r.sender = "agent")
  IN IF call.conversation_id = "" \/ call.fail = "history" \/ Len(rows) = 0 THEN Absent
     ELSE Some(rows[Len(rows)].department)
C17_Chain(text) ==
  IF IsPresent(C17_Label) THEN The(C17_Label)
  ELSE IF \/ ContainsAny(text, route_restaurant_keywords)
          \/ \E w \in MenuWords : C15_WholeWord(text, w)
          \/ \E k \in 1..Len(MENU) : Contains(text, lower(MENU[k].name))
       THEN "restaurant"
  ELSE IF ContainsAny(text, route_room_service_keywords) THEN "room_service"
  ELSE IF IsPresent(C17_History) THEN The(C17_History)
  ELSE "receptionist"

\* C17: route_department follows a fixed precedence chain: the gateway's
\* label whenever it is one of the three department names, whatever the
\* keywords and the history; otherwise restaurant if a restaurant keyword or
\* a menu word matches; otherwise room_service if a room-service keyword
\* matches; otherwise the department of the conversation's most recent
\* agent-authored message, if a conversation id is given and there is one;
\* otherwise receptionist.
C17_RoutingChain ==
  call.op = "route_department" => outcome = Return(C17_Chain(lower(call.message)))

\* the agent of the only bit set
C18_AgentOf(v) ==
  CASE v[1] -> "restaurant"
    [] v[2] -> "room_service"
    [] v[3] -> "receptionist"
\* the extraction request the agent invoked makes of a bound gateway
C18_Extractions ==
  IF ~available \/ trace.agents = << >> THEN 0
  ELSE CASE trace.agents[1] = "restaurant" /\ ~C8_AsksMenu(call.message) -> 1
         [] trace.agents[1] = "room_service" -> 1
         [] OTHER -> 0

\* C18: when exactly one bit of the intent vector is set, handle invokes one
\* domain agent, once: the agent of that bit.  No other agent is invoked and
\* the classifier is not asked (the requests made of the gateway are that of
\* detect_intents and the extraction of the agent), so its label cannot
\* change the choice.
C18_SingleIntentDelegates ==
  (Served /\ IsPresent(trace.intents) /\ BitsSet(The(trace.intents)) = 1) =>
    /\ trace.agents = <<C18_AgentOf(The(trace.intents))>>
    /\ Len(trace.results) = 1
    /\ trace.remote = (IF available THEN 1 ELSE 0) + C18_Extractions

\* C18 happens: the gateway sets the room_service bit alone for "2 coffee",
\* and the room-service agent alone is invoked
C18_VectorOverKeywords ==
  /\ Served /\ call.message = IdOf(<<"2"," ","c","o","f","f","e","e">>)
  /\ trace.intents = Some(<<FALSE, TRUE, FALSE>>)
  /\ trace.agents = <<"room_service">>
  /\ ~outcome.raised
  /\ outcome.value.department = "room_service"

\* a character position is outside every word
C19_Edge(text, q) == q < 1 \/ q > Len(text) \/ ~IsWordChar(text[q])
\* the numbers of the phrases "room <1-4 digits>" of the message, each with
\* the position of its "room": the word starts at a word edge, whitespace may
\* follow it, the digits are a whole number of at most four digits
C19_Phrases(text) ==
  { <<i, r>> \in (1..Len(text)) \X DigitRuns(text) :
      /\ StartsAt(lower(text), <<"r","o","o","m">>, i)
      /\ C19_Edge(text, i - 1)
      /\ r[1] >= i + 4
      /\ \A q \in (i + 4)..(r[1] - 1) : IsSpace(text[q])
      /\ r[2] - r[1] + 1 <= 4
      /\ C19_Edge(text, r[2] + 1) }
\* the standalone numbers of three or four digits
C19_Standalone(text) ==
  { r \in DigitRuns(text) :
      /\ r[2] - r[1] + 1 \in {3, 4}
      /\ C19_Edge(text, r[1] - 1)
      /\ C19_Edge(text, r[2] + 1) }
C19_RoomOf(message, room_number) ==
  IF room_number # NoRoom THEN room_number
  ELSE IF C19_Phrases(message) # {}
  THEN LET first == CHOOSE p \in C19_Phrases(message) :
                      \A q \in C19_Phrases(message) : p[1] <= q[1]
       IN SubSeq(message, first[2][1], first[2][2])
  ELSE IF Cardinality(C19_Standalone(message)) = 1
  THEN LET r == CHOOSE q \in C19_Standalone(message) : TRUE
       IN SubSeq(message, r[1], r[2])
  ELSE NoRoom

\* C19: context extraction.  A room number supplied with the request is
\* used unchanged, the message not being parsed; when none is supplied, a
\* phrase "room <1-4 digits>" of the message gives it and takes precedence;
\* otherwise it is the standalone number of three or four digits of the
\* message if and only if exactly one occurs; with two or more, or none, no
\* room number results.
C19_RoomResolution ==
  call.op = "_extract_room_number" =>
    /\ outcome = Return(C19_RoomOf(call.arg.message, call.arg.room_number))
    /\ trace.room = outcome.value
    /\ (call.arg.room_number = NoRoom /\ C19_Phrases(call.arg.message) = {}
          /\ Cardinality(C19_Standalone(call.arg.message)) # 1) => outcome.value = NoRoom

\* C19 happens: "to 104 and 205" names two numbers and no room results
C19_TwoNumbersNoRoom ==
  /\ call.op = "_extract_room_number"
  /\ call.arg = [message |-> <<"t","o"," ","1","0","4"," ","a","n","d"," ","2","0","5">>, room_number |-> NoRoom]
  /\ Cardinality(C19_Standalone(call.arg.message)) = 2
  /\ outcome = Return(NoRoom)

\* what extract_order hands the restaurant agent
C20_FromGateway == extract_order(available, call.script.order, "").value
\* an item list the agent can use: a mapping whose items are a non-empty
\* list of mappings that name an item
C20_Usable(v) ==
  /\ v.t = "dict"
  /\ DictGet(v, <<"i","t","e","m","s">>).t = "list"
  /\ Len(DictGet(v, <<"i","t","e","m","s">>).v) > 0
  /\ \A i \in 1..Len(DictGet(v, <<"i","t","e","m","s">>).v) :
       /\ DictGet(v, <<"i","t","e","m","s">>).v[i].t = "dict"
       /\ DictGet(DictGet(v, <<"i","t","e","m","s">>).v[i], <<"n","a","m","e">>).t = "str"
\* what the restaurant agent yields on its heuristic parser alone
C20_Heuristic ==
  Restaurant_handle(Analyses, call.message, trace.room, call.conversation_id,
                    [messages |-> << >>, orders |-> << >>, requests |-> << >>],
                    FALSE, NoRequest, call.fail, Suffix).res

\* C20: the gateway's extract_order result is advisory.  When it is absent,
\* has no items, or has an unexpected shape (no mapping, or items that are
\* not name/quantity mappings) the restaurant agent discards it and does
\* what its heuristic parser alone makes it do; the shape of the result makes
\* it fail in no case.
C20_GatewayOrderAdvisory ==
  (Served /\ call.script.order # NoRequest /\ ~C20_Usable(C20_FromGateway)) =>
    \A c \in AgentCalls : c[1] = "restaurant" => c[2] = C20_Heuristic

-----------------------------------------------------------------------------
(* The restaurant agent's heuristic parser *)

\* the order lines _simple_parse returned
ParsedLines ==
  IF IsAbsent(outcome.value.payload) THEN << >>
  ELSE DictGet(The(outcome.value.payload), <<"i","t","e","m","s">>).v

\* the quantity the four patterns give an item, 1 when none of them matches
C21_PatternQuantity(text, item_name) ==
  LET name_lower == lower(item_name)
      p1 == DigitsBefore(text, name_lower)
      p2 == DigitsAfter(text, name_lower)
      p3 == WordBefore(text, name_lower)
      p4 == WordAfter(text, name_lower)
      found == IF IsPresent(p1) THEN p1 ELSE IF IsPresent(p2) THEN p2
               ELSE IF IsPresent(p3) THEN p3 ELSE p4
  IN IF IsPresent(found) THEN _coerce_quantity(JStr(The(found))).value ELSE 1

\* C21: every item the heuristic parse matched has the quantity found by the
\* first of the four patterns (digit-then-item, item-then-digit,
\* number-word-then-item, item-then-number-word) that matches for that item,
\* and the quantity 1 when none of the four matches, whatever digit or number
\* word stands elsewhere in the message
C21_QuantityByPattern ==
  call.op = "_simple_parse" =>
    \A i \in 1..Len(ParsedLines) :
      DictGet(ParsedLines[i], <<"q","u","a","n","t","i","t","y">>).v =
        C21_PatternQuantity(lower(call.arg), DictGet(ParsedLines[i], <<"n","a","m","e">>).v)

\* the menu items the specification matches in a text
C22_Matched(text) ==
  {k \in 1..Len(menu_lookup) :
     LET name_lower == lower(menu_lookup[k].name)
         w == SplitWords(name_lower)
     IN \/ Contains(text, name_lower)
        \/ \E i \in 1..Len(w) : Len(w[i]) > 4 /\ SearchWord(text, w[i])}

\* C22: the heuristic parse matches a menu item exactly when its full name is
\* a substring of the message or one of its name tokens longer than 4
\* characters occurs as a whole word, a plural s tolerated; a token of 4
\* characters or fewer on its own matches nothing
C22_MatchByNameOrLongToken ==
  call.op = "_simple_parse" =>
    {DictGet(ParsedLines[i], <<"n","a","m","e">>).v : i \in 1..Len(ParsedLines)}
      = {menu_lookup[k].name : k \in C22_Matched(lower(call.arg))}

-----------------------------------------------------------------------------
(* The restaurant agent's room resolution *)

\* the agent, called without a room number, has items to place and no
\* quantities to confirm: the gateway's order or the heuristic parse
C23_Resolving ==
  /\ call.op = "restaurant_handle"
  /\ ~MenuRequestOf[call.message]
  /\ \/ available /\ call.order.kind = "json"
     \/ /\ IsPresent(RestaurantParseOf[call.message].payload)
        /\ ~RestaurantParseOf[call.message].needs_qty_confirm
\* the room the records of the conversation give
C23_RecordedRoom ==
  LET placed == RowsOf(call.db.orders, call.conversation_id)
      logged == RowsOf(call.db.requests, call.conversation_id)
  IN IF call.fail = "lookup" THEN NoRoom
     ELSE IF Len(placed) > 0 THEN placed[Len(placed)].room_number
     ELSE IF Len(logged) > 0 THEN logged[Len(logged)].room_number
     ELSE NoRoom
C23_AsksForRoom ==
  outcome = Return(AgentResult(Line("ask_room", << >>), "restaurant", Absent, Absent))

\* C23: called without a room number, the restaurant agent uses the room of
\* the conversation's most recent order, else the room of its most recent
\* room-service request; when there is neither, or the lookup fails, it
\* replies asking for the room number and the orders table is unchanged,
\* and only then does it ask
C23_RoomFromRecords ==
  C23_Resolving =>
    /\ trace.room = C23_RecordedRoom
    /\ C23_RecordedRoom = NoRoom => C23_AsksForRoom /\ orders = call.db.orders
    /\ C23_RecordedRoom # NoRoom => ~C23_AsksForRoom /\ Len(trace.saves) > 0
\* the conversation has no order but a request, another conversation has an
\* order for another room: the request's room is the one used
C23_RequestRoomUsed ==
  /\ C23_Resolving /\ call.fail = "none"
  /\ Len(call.db.orders) > 0 /\ RowsOf(call.db.orders, call.conversation_id) = << >>
  /\ Len(RowsOf(call.db.requests, call.conversation_id)) = MaxRows
  /\ trace.room = <<"2","0","5">> /\ call.db.orders[1].room_number = <<"1","0","4">>
  /\ ~C23_AsksForRoom

-----------------------------------------------------------------------------
(* The room-service agent *)

\* the canonical vocabulary of request types
C24_Vocabulary ==
  { <<"c","l","e","a","n","i","n","g">>, <<"l","a","u","n","d","r","y">>, <<"t","o","w","e","l","s">>, <<"t","o","i","l","e","t","r","i","e","s">>, <<"t","o","o","t","h","p","a","s","t","e">>, <<"t","o","o","t","h","b","r","u","s","h">>,
    <<"p","i","l","l","o","w">>, <<"b","l","a","n","k","e","t">> }
\* the request_type of the gateway's document, None when it has none
C24_GatewayType ==
  IF available /\ call.script.room_service.kind = "json"
     /\ call.script.room_service.content.t = "dict"
  THEN DictGet(call.script.room_service.content, <<"r","e","q","u","e","s","t","_","t","y","p","e">>)
  ELSE JNull
\* the gateway named a request type that normalization maps to nothing
C24_FellThrough ==
  /\ call.op = "chat"
  /\ Truthy(C24_GatewayType)
  /\ LET n == _normalize_request_type(C24_GatewayType)
     IN ~n.raised /\ (IsAbsent(n.value) \/ Len(The(n.value)) = 0)
\* what the heuristic parser, normalized, makes of a message
C24_Heuristic(id) ==
  IF IsPresent(RoomServiceParseOf[id])
  THEN _normalize_request_type(JStr(The(RoomServiceParseOf[id]))).value
  ELSE Absent

\* C24: every persisted room-service request has a request_type of the
\* canonical vocabulary; when the gateway's request_type fails normalization
\* it is not persisted raw: the request logged for a message the heuristic
\* parser understands is the normalized heuristic result
C24_CanonicalRequests ==
  /\ \A i \in 1..Len(requests) : requests[i].request_type \in C24_Vocabulary
  /\ (C24_FellThrough /\ IsPresent(C24_Heuristic(call.message)) /\ ~outcome.raised) =>
       (IsPresent(outcome.value.room_service_request) =>
          The(outcome.value.room_service_request).request_type
            = The(C24_Heuristic(call.message)))
\* the gateway answered "massage" to "need towels" and a towels request is
\* logged
C24_HeuristicPersisted ==
  /\ C24_FellThrough /\ C24_GatewayType = JStr(<<"m","a","s","s","a","g","e">>)
  /\ call.message = IdOf(<<"n","e","e","d"," ","t","o","w","e","l","s">>)
  /\ Len(requests) > 0 /\ requests[Len(requests)].request_type = <<"t","o","w","e","l","s">>
  /\ IsPresent(outcome.value.room_service_request)

\* the payloads the request returned, of either kind
C25_Payloads ==
  IF call.op # "chat" \/ outcome.raised THEN {}
  ELSE {The(p) : p \in {q \in {outcome.value.order, outcome.value.room_service_request} :
                          IsPresent(q)}}
\* a payload carries a display identifier
C25_Identified(p) == "display_id" \in DOMAIN p /\ IsPresent(p.display_id)

\* C25: every payload persistence returns, for a room-service request as for
\* an order, has the status Pending and a display identifier that is not
\* absent (an order's composed of the room number and a random suffix), and
\* the room-service reply echoes the title-cased request type and the status
C25_PendingAndIdentified ==
  /\ \A p \in C25_Payloads : p.status = "Pending" /\ C25_Identified(p)
  /\ (call.op = "chat" /\ ~outcome.raised) =>
       /\ IsPresent(outcome.value.order) =>
            \E suffix \in UuidSuffixes :
              The(outcome.value.order).display_id
                = Some(<<"RES", The(outcome.value.order).room_number, suffix>>)
       /\ IsPresent(outcome.value.room_service_request) =>
            LET p == The(outcome.value.room_service_request)
            IN outcome.value.reply
                 = Line("request_logged", <<title(p.request_type), p.room_number, p.status>>)

-----------------------------------------------------------------------------
(* The orchestrator's multi-intent combination *)

C26_Order == <<"restaurant", "room_service", "receptionist">>
C26_Rank(agent) == CHOOSE k \in 1..Len(C26_Order) : C26_Order[k] = agent
\* the result the named agent returned, if it was invoked and returned
C26_ResultOf(agent) ==
  LET hits == {k \in 1..Len(trace.agents) : trace.agents[k] = agent /\ ~trace.results[k].raised}
  IN IF hits = {} THEN Absent ELSE Some(trace.results[CHOOSE k \in hits : TRUE].value)
\* the non-empty replies of the agents from the k-th call on, joined
RECURSIVE C26_Replies(_)
C26_Replies(k) ==
  IF k > Len(trace.results) THEN << >>
  ELSE (IF ~trace.results[k].raised /\ Len(trace.results[k].value.reply) > 0
        THEN trace.results[k].value.reply ELSE << >>) \o C26_Replies(k + 1)

\* C26: with two or more intent bits true the agents of the true bits are
\* invoked one after the other in the order restaurant, room_service,
\* receptionist, each at most once; the combined reply joins their non-empty
\* replies in that order, or is the generic acknowledgement when there is
\* none; the department is multi, the order payload is the restaurant agent's
\* and the room-service payload is the room-service agent's
C26_MultiInFixedOrder ==
  (Served /\ IsPresent(trace.intents) /\ BitsSet(The(trace.intents)) >= 2) =>
    /\ {trace.agents[k] : k \in 1..Len(trace.agents)}
         = {C26_Order[b] : b \in {c \in 1..Len(C26_Order) : The(trace.intents)[c]}}
    /\ \A j, k \in 1..Len(trace.agents) :
         j < k => C26_Rank(trace.agents[j]) < C26_Rank(trace.agents[k])
    /\ Len(trace.results) = Len(trace.agents)
    /\ ~outcome.raised
    /\ outcome.value.department = "multi"
    /\ outcome.value.reply =
         (IF C26_Replies(1) = << >> THEN Line("request_received", << >>) ELSE C26_Replies(1))
    /\ outcome.value.order =
         (IF IsPresent(C26_ResultOf("restaurant")) THEN The(C26_ResultOf("restaurant")).order
          ELSE Absent)
    /\ outcome.value.room_service_request =
         (IF IsPresent(C26_ResultOf("room_service"))
          THEN The(C26_ResultOf("room_service")).room_service_request ELSE Absent)
\* all three bits are true: the three agents run in order, the room-service
\* agent logs a request and the receptionist answers after it
C26_ThreeAgents ==
  /\ Served /\ IsPresent(trace.intents) /\ BitsSet(The(trace.intents)) = 3
  /\ trace.agents = C26_Order
  /\ ~trace.results[2].raised /\ ~trace.results[3].raised
  /\ ~outcome.raised
  /\ Len(outcome.value.reply) >= 2
  /\ outcome.value.reply = C26_Replies(2)
  /\ IsPresent(outcome.value.room_service_request)
  /\ outcome.value.room_service_request = trace.results[2].value.room_service_request

-----------------------------------------------------------------------------
(* History recovery *)

\* the message rows as the request found them
C27_Before ==
  IF trace.served THEN SubSeq(messages, 1, Len(messages) - 2) ELSE messages
\* the contents of the five most recent user messages of the conversation,
\* newest first
C27_Window ==
  LET rows == SelectSeq(C27_Before,
                        LAMBDA r : r.sender = "user" /\ r.conversation_id = call.conversation_id)
      n == Len(rows)
  IN [i \in 1..(IF n < 5 THEN n ELSE 5) |-> rows[n + 1 - i].content]
\* a domain agent alone handled the request, which asks for no menu
C27_Handled(agent) ==
  /\ call.op = "chat" /\ trace.agents = <<agent>> /\ ~MenuRequestOf[call.message]
\* the order of the current message: the gateway's, else the heuristic parse
C27_GatewayOrder == available /\ call.script.order.kind = "json"
C27_CurrentOrder ==
  IF C27_GatewayOrder
  THEN [payload |-> Some(call.script.order.content), needs_qty_confirm |-> FALSE]
  ELSE RestaurantParseOf[call.message]
\* the first non-empty heuristic parse of the window
C27_RecoveredOrder ==
  LET hits == {i \in 1..Len(C27_Window) : IsPresent(RestaurantParseOf[C27_Window[i]].payload)}
  IN IF hits = {} \/ call.fail = "history" THEN NothingParsed
     ELSE RestaurantParseOf[C27_Window[Min(hits)]]
\* the order the agent works with
C27_Order ==
  IF IsPresent(C27_CurrentOrder.payload) THEN C27_CurrentOrder
  ELSE IF trace.room # NoRoom THEN C27_RecoveredOrder
  ELSE NothingParsed
\* likewise the request type of the room-service agent
C27_CurrentRequest ==
  LET n == IF Truthy(C24_GatewayType) THEN _normalize_request_type(C24_GatewayType)
           ELSE Return(Absent)
  IN IF ~n.raised /\ IsPresent(n.value) /\ Len(The(n.value)) > 0 THEN n.value
     ELSE C24_Heuristic(call.message)
C27_RecoveredRequest ==
  LET hits == {i \in 1..Len(C27_Window) : IsPresent(RoomServiceParseOf[C27_Window[i]])}
  IN IF hits = {} \/ call.fail = "history" THEN Absent
     ELSE C24_Heuristic(C27_Window[Min(hits)])
C27_Request ==
  IF IsPresent(C27_CurrentRequest) THEN C27_CurrentRequest
  ELSE IF trace.room # NoRoom THEN C27_RecoveredRequest
  ELSE Absent
\* the reply of an agent that returned
C27_Reply(line) == ~outcome.raised /\ outcome.value.reply = line

\* C27: a domain agent turns to the history only when the current message
\* gives it no payload and a room number is present; it then takes the first
\* non-empty heuristic parse among the five most recent user messages of the
\* same conversation, newest first, without a further gateway call; a failing
\* history query counts as no history.  What the agent then does (asks for
\* items or for the request, asks to confirm quantities, prices and saves)
\* is what that payload calls for
C27_RecoveryFromHistory ==
  /\ C27_Handled("restaurant") =>
       /\ trace.remote = (IF available THEN 2 ELSE 0)
       /\ IsAbsent(C27_Order.payload) => C27_Reply(Line("ask_items", << >>))
       /\ (IsPresent(C27_Order.payload) /\ C27_Order.needs_qty_confirm) =>
            C27_Reply(Line("confirm_quantities", ConfirmNames(The(C27_Order.payload))))
       /\ (IsPresent(C27_Order.payload) /\ ~C27_Order.needs_qty_confirm /\ trace.room # NoRoom) =>
            trace.saves
              = <<PricedItems(DictGet(The(C27_Order.payload), <<"i","t","e","m","s">>).v).value>>
  /\ C27_Handled("room_service") =>
       /\ trace.remote = (IF available THEN 2 ELSE 0)
       /\ IsAbsent(C27_Request) => C27_Reply(Line("room_service_capabilities", << >>))
       /\ (IsPresent(C27_Request) /\ trace.room # NoRoom) =>
            /\ Len(requests) = 1 /\ requests[1].request_type = The(C27_Request)
            /\ IsPresent(outcome.value.room_service_request)
\* the order stated five user messages ago is recovered for "room 104" and
\* priced; and the request stated five messages ago is logged
C27_FifthMessageRecovered ==
  /\ C27_Handled("restaurant") /\ call.message = IdOf(<<"r","o","o","m"," ","1","0","4">>)
  /\ IsAbsent(C27_CurrentOrder.payload)
  /\ Len(C27_Window) = 5
  /\ \A i \in 1..4 : IsAbsent(RestaurantParseOf[C27_Window[i]].payload)
  /\ IsPresent(RestaurantParseOf[C27_Window[5]].payload)
  /\ Len(trace.saves) = 1

\* the request went to one domain agent with a room number and stated
\* nothing that agent can parse
C28_NothingRequested ==
  C27_Handled("room_service") /\ trace.room # NoRoom /\ IsAbsent(C27_CurrentRequest)
C28_NothingOrdered ==
  C27_Handled("restaurant") /\ trace.room # NoRoom /\ IsAbsent(C27_CurrentOrder.payload)
\* the records of the conversation of the request
C28_Records(table) == RowsOf(table, call.conversation_id)
\* the request persisted a record of the kind
C28_Logged == ~outcome.raised /\ IsPresent(outcome.value.room_service_request)
C28_Placed == ~outcome.raised /\ IsPresent(outcome.value.order)

\* C28: once a message of a conversation has been fulfilled by a persisted
\* order or room-service request, a later message of that conversation that
\* reaches the same agent with a room number and states no item or request
\* persists nothing: a record such a message persists, built from the
\* history, is the first of its conversation
C28_NoRepersist ==
  /\ (C28_NothingRequested /\ C28_Logged) => Len(C28_Records(requests)) = 1
  /\ (C28_NothingOrdered /\ C28_Placed) => Len(C28_Records(orders)) = 1

-----------------------------------------------------------------------------
(* Routing *)

\* C29: whatever the message, the conversation id, the gateway's label and
\* the conversation's history, route_department returns receptionist,
\* restaurant or room_service, and never the label multi
C29_RoutableDepartment ==
  call.op = "route_department" =>
    /\ ~outcome.raised
    /\ outcome.value \in {"receptionist", "restaurant", "room_service"}

\* C30: after any interleaving of chat booking requests and user deletions
\* no two users hold the same room number, and every room a user holds is
\* marked unavailable
C30_Held(user_id) == users[user_id] # NoRoom
C30_RoomAllocation ==
  /\ \A a \in DOMAIN users : \A b \in DOMAIN users :
       (a # b /\ C30_Held(a)) => users[a] # users[b]
  /\ \A a \in DOMAIN users :
       (C30_Held(a) /\ users[a] \in DOMAIN rooms) => ~rooms[users[a]]
-----------------------------------------------------------------------------
(* Specifications *)

\* a fresh deployment: empty tables, the gateway client bound or not
Init ==
  /\ messages = << >> /\ orders = << >> /\ requests = << >>
  /\ available \in BOOLEAN
  /\ last_error = InitialLastError(available)
  /\ call = NoCall /\ outcome = Return(0) /\ trace = NoTrace /\ turn = 0
  /\ startup_event

\* dialogues of up to MaxTurns requests
Next == Turn
Spec == Init /\ [][Next]_vars

\* one request served by a fresh deployment, the gateway answering anything
NextHandle == FirstChat
SpecHandle == Init /\ [][NextHandle]_vars

\* the gateway client called operation after operation
NextGateway ==
  \/ \E resp \in GatewayResponses : ClassifyDepartment(resp)
  \/ \E resp \in GatewayResponses : DetectIntents(resp)
  \/ \E resp \in GatewayResponses : ExtractOrder(resp)
  \/ \E resp \in GatewayResponses : ExtractRoomService(resp)
  \/ Health
SpecGateway == Init /\ [][NextGateway]_vars

\* _coerce_quantity applied to one raw quantity
InitCoerce ==
  /\ messages = << >> /\ orders = << >> /\ requests = << >>
  /\ available \in BOOLEAN
  /\ last_error = InitialLastError(available)
  /\ call \in {Pending("_coerce_quantity", raw) : raw \in RawQuantities}
  /\ outcome = Return(0) /\ trace = NoTrace /\ turn = 0
  /\ startup_event
NextCoerce == CoerceQuantity
SpecCoerce == InitCoerce /\ [][NextCoerce]_vars

\* _normalize_request_type applied to one request_type
InitNormalize ==
  /\ messages = << >> /\ orders = << >> /\ requests = << >>
  /\ available \in BOOLEAN
  /\ last_error = InitialLastError(available)
  /\ call \in {Pending("_normalize_request_type", rt) : rt \in RequestTypes}
  /\ outcome = Return(0) /\ trace = NoTrace /\ turn = 0
  /\ startup_event
NextNormalize == NormalizeRequestType
SpecNormalize == InitNormalize /\ [][NextNormalize]_vars

-----------------------------------------------------------------------------
(* Specifications of operations called on their own *)

\* _detect_intents applied to one message, no gateway bound
InitIntents ==
  /\ messages = << >> /\ orders = << >> /\ requests = << >>
  /\ available = FALSE
  /\ last_error = InitialLastError(available)
  /\ call \in {Pending("_detect_intents", text) : text \in IntentTexts}
  /\ outcome = Return(0) /\ trace = NoTrace /\ turn = 0
  /\ startup_event
NextIntents == DetectIntentsOffline
SpecIntents == InitIntents /\ [][NextIntents]_vars

\* the first request of a dialogue
FirstTurn == turn = 0 /\ call.op = "none" /\ Turn

\* route_department called on a fresh deployment or after one request
NextRoute ==
  \/ FirstTurn
  \/ \E text \in RouteTexts, conversation_id \in RouteConversations,
        resp \in Drawn(LabelResponses, available), fail \in RouteFailures :
       RouteDepartment(RouteAnalysesOf[text], text, conversation_id, resp, fail)
SpecRoute == Init /\ [][NextRoute]_vars

\* the room number of a request resolved from its room number and message
InitRoom ==
  /\ messages = << >> /\ orders = << >> /\ requests = << >>
  /\ available \in BOOLEAN
  /\ last_error = InitialLastError(available)
  /\ call \in {Pending("_extract_room_number", arg) : arg \in RoomArguments}
  /\ outcome = Return(0) /\ trace = NoTrace /\ turn = 0
  /\ startup_event
NextRoom == ResolveRoomNumber
SpecRoom == InitRoom /\ [][NextRoom]_vars


\* the restaurant agent's heuristic parser applied to one message
InitParse ==
  /\ messages = << >> /\ orders = << >> /\ requests = << >>
  /\ available \in BOOLEAN
  /\ last_error = InitialLastError(available)
  /\ call \in {Pending("_simple_parse", text) : text \in ParseTexts}
  /\ outcome = Return(0) /\ trace = NoTrace /\ turn = 0
  /\ startup_event
NextParse == SimpleParse
SpecParse == InitParse /\ [][NextParse]_vars

\* the restaurant agent called without a room number on tables that hold rows
InitStored ==
  /\ messages = << >> /\ orders \in StoredOrders /\ requests \in StoredRequests
  /\ available \in BOOLEAN
  /\ last_error = InitialLastError(available)
  /\ call = NoCall /\ outcome = Return(0) /\ trace = NoTrace /\ turn = 0
  /\ startup_event
NextStored ==
  \E id \in NoRoomMessages, conversation_id \in Conversations,
     resp \in Drawn(NoRoomResponses, available), fail \in NoRoomFailures :
    RestaurantWithoutRoom(id, conversation_id, resp, fail, Suffix)
SpecStored == InitStored /\ [][NextStored]_vars

\* one turn of a dialogue with the room-service agent
ServiceTurn ==
  /\ turn < MaxTurns
  /\ \E id \in ServiceMessages, room_number \in Rooms, script \in ServiceScripts,
        fail \in ServiceFailures :
       chat(id, room_number, "c1", script, fail, Suffix)
NextService == ServiceTurn
SpecService == Init /\ [][NextService]_vars

\* one request served by a deployment that has had conversations
InitHistory ==
  /\ messages \in Histories /\ orders = << >> /\ requests = << >>
  /\ available \in BOOLEAN
  /\ last_error = InitialLastError(available)
  /\ call = NoCall /\ outcome = Return(0) /\ trace = NoTrace /\ turn = 0
  /\ startup_event
LaterChat ==
  /\ call.op = "none"
  /\ \E id \in RecoveryMessages, room_number \in Rooms, conversation_id \in Conversations,
        script \in RecoveryScripts, fail \in RecoveryFailures :
       chat(id, room_number, conversation_id, script, fail, Suffix)
NextHistory == LaterChat
SpecHistory == InitHistory /\ [][NextHistory]_vars

\* route_department called after the deployment has served one request
EarlierChat ==
  /\ turn = 0 /\ call.op = "none"
  /\ \E id \in EarlierMessages, room_number \in Rooms, script \in DialogueScripts :
       chat(id, room_number, "c1", script, "none", Suffix)
NextRouted ==
  \/ EarlierChat
  \/ \E text \in RouteTexts, conversation_id \in RouteConversations,
        resp \in Drawn(LabelResponses, available), fail \in RouteFailures :
       RouteDepartment(RouteAnalysesOf[text], text, conversation_id, resp, fail)
SpecRouted == Init /\ [][NextRouted]_vars

\* guests register, book rooms by chat and are deleted, up to MaxRequests
\* chat and delete requests, two of them in progress at a time
BookingMessages == { <<"b","o","o","k"," ","a"," ","r","o","o","m">>, <<"r","o","o","m"," ","1","0","1">>, <<"h","e","l","l","o">> }
NextGuests ==
  \/ \E user_id \in UserIds : register_user(user_id)
  \/ \E w \in Workers, user_id \in UserIds, message \in BookingMessages :
       ChatLoadUser(w, user_id, message, "c1")
  \/ \E w \in Workers : ChatFindRoom(w)
  \/ \E w \in Workers : ChatCommit(w)
  \/ \E w \in Workers, user_id \in UserIds : DeleteLoadUser(w, user_id)
  \/ \E w \in Workers : DeleteCommit(w)
SpecGuests == Init /\ [][NextGuests]_vars
=============================================================================
